---- MODULE Spec2Model ----
(***************************************************************************)
(* Model of the inference pipeline of the RTI / public-complaint generator: *)
(* the keyword rule matcher (rule_engine/intent_rules.py), the confidence   *)
(* gate (nlp/confidence_gate.py) and the orchestrator                       *)
(* (inference_orchestrator.py).                                             *)
(*                                                                         *)
(* Confidence scores are fixed-point numbers: one unit is 0.0001, so 0.70   *)
(* is 7000 and 0.6999 is 6999.  A text is abstracted to what the code reads *)
(* from it: the bag of keyword matches per (category, weight), and the      *)
(* number of RTI-section triggers and grievance markers it contains, whether *)
(* it is empty or whitespace only, and the highest cosine similarity it has  *)
(* with the RTI templates and with the complaint templates.                  *)
(***************************************************************************)
EXTENDS Integers, Sequences, FiniteSets, TLC, Bags

VARIABLES
    Thresholds,           \* class Thresholds (confidence_gate.py), process-wide
    pc,                   \* position of the current API call
    fn,                   \* the API function being executed, "" when idle
    text,                 \* <<>> or <<t>>: the text given to run_inference
    args,                 \* <<>> or <<a>>: the arguments of a direct gate call
    intent,               \* run_inference: local intent
    rule_confidence,      \* run_inference: local rule_confidence
    adjusted_confidence,  \* run_inference: local adjusted_confidence
    decision_path,        \* run_inference: local decision_path
    invoked,              \* the components the current call has invoked
    document_type,        \* run_inference: local document_type
    gated,                \* <<>> or <<g>>: the GatedResult of gate_result
    ask,                  \* <<>> or <<b>>: the value of should_ask_user
    result,               \* <<>> or <<r>>: the InferenceResult returned
    raised,               \* the exception that left the call, "none" if none
    verdict,              \* <<>> or <<r>>: the IntentResult of a direct classify call
    legal,                \* <<>> or <<r>>: the LegalAnalysisResult of a direct call
    outcome,              \* <<>> or <<r>>: what a call of another service returned
    embedding_cache,      \* distilbert_semantic._embedding_cache: keys, oldest first
    tracked,              \* whether this behaviour follows the cache and the first run
    first_run,            \* <<>> or <<r>>: text and outcome of the first completed run
    audit_log,            \* confidence_gate._audit_log, oldest entry first
    threads,              \* concurrent callers of the cache and the audit log: the
                          \* position and the locals of each
    rate_limit_enabled,   \* settings.RATE_LIMIT_ENABLED
    request_counts,       \* RateLimitMiddleware.request_counts: client -> times
    clock,                \* what time.time() returns now
    in_flight,            \* bag of the dispatch calls waiting in call_next
    admissions,           \* history: per client, the times of the requests admitted
    last_decision         \* history: <<>> or <<d>>, what the last dispatch decided

vars == <<Thresholds, pc, fn, text, args, intent, rule_confidence,
          adjusted_confidence, decision_path, invoked, document_type,
          gated, ask, result, raised, verdict, legal, outcome,
          embedding_cache,
          tracked, first_run, audit_log, threads,
          rate_limit_enabled, request_counts, clock, in_flight, admissions,
          last_decision>>

\* The results of direct calls, and the state kept between calls
direct_results == <<verdict, legal, outcome>>
limiter_state ==
    <<rate_limit_enabled, request_counts, clock, in_flight, admissions,
      last_decision>>
service_state ==
    <<embedding_cache, tracked, first_run, audit_log, threads, limiter_state>>
side_state == <<audit_log, threads, limiter_state>>
inference_state ==
    <<Thresholds, pc, fn, text, args, intent, rule_confidence,
      adjusted_confidence, decision_path, invoked, document_type,
      gated, ask, result, raised, direct_results, tracked, first_run>>

(***************************************************************************)
(* Bounds of the model                                                     *)
(***************************************************************************)
MaxMatches == 2        \* keyword matches in one text
MaxTriggers == 1       \* RTI-section triggers / grievance markers in one text
MaxIndicatorHits == 1  \* document-type indicator keywords found per type
MaxDirectMatches == 3  \* keyword matches in a text given to the rule matcher alone

Min(a, b) == IF a <= b THEN a ELSE b
Max(a, b) == IF a >= b THEN a ELSE b

(***************************************************************************)
(* rule_engine/intent_rules.py                                             *)
(***************************************************************************)
\* The five keyword dictionaries, in the order classify_intent_detailed
\* builds `scores` (max() returns the first maximal key in this order).
CategoryOrder == <<"rti", "complaint", "appeal", "follow_up", "escalation">>
Categories == {CategoryOrder[i] : i \in 1..Len(CategoryOrder)}

\* The keyword weights 0.3, 0.2, 0.1 used by every dictionary.
KeywordWeights == {3000, 2000, 1000}

\* A keyword match is identified by its dictionary and its weight.
Keywords == Categories \X KeywordWeights

BASE_CONFIDENCE == 4000
MATCH_BONUS_STEP == 200
MATCH_BONUS_CAP == 1000
SCORE_CAP == 9500
AMBIGUITY_FLOOR == 5000
AMBIGUITY_MARGIN == 1000
AMBIGUITY_CAP == 6000
UNKNOWN_FLOOR == 3000
REQUIRES_NLP_BELOW == 7000

\* _find_keyword_matches: the matches of one dictionary, as the number of
\* matches of each weight (re.finditer yields one match per occurrence).
find_keyword_matches(t, category) ==
    [w \in KeywordWeights |-> t.matches[<<category, w>>]]

\* len(matches) and sum(m.weight for m in matches)
MatchCount(m) == m[3000] + m[2000] + m[1000]
TotalWeight(m) == 3000 * m[3000] + 2000 * m[2000] + 1000 * m[1000]

calculate_weighted_score_uncapped(m) ==
    IF MatchCount(m) = 0 THEN 0
    ELSE BASE_CONFIDENCE + TotalWeight(m)
         + Min(MATCH_BONUS_CAP, MatchCount(m) * MATCH_BONUS_STEP)

calculate_weighted_score_no_base(m) ==
    IF MatchCount(m) = 0 THEN 0
    ELSE Min(SCORE_CAP,
             TotalWeight(m) + Min(MATCH_BONUS_CAP, MatchCount(m) * MATCH_BONUS_STEP))

\* _calculate_weighted_score
calculate_weighted_score(m) ==
    IF MatchCount(m) = 0 THEN 0
    ELSE Min(SCORE_CAP,
             BASE_CONFIDENCE + TotalWeight(m)
             + Min(MATCH_BONUS_CAP, MatchCount(m) * MATCH_BONUS_STEP))

Scores(t) ==
    [c \in Categories |-> calculate_weighted_score(find_keyword_matches(t, c))]

\* best_intent = max(scores.keys(), key=...): the first category, in
\* dictionary order, that has the highest score.
BestIntent(t) ==
    LET s == Scores(t)
        i == CHOOSE i \in 1..Len(CategoryOrder) :
                /\ \A j \in 1..Len(CategoryOrder) :
                        s[CategoryOrder[j]] <= s[CategoryOrder[i]]
                /\ \A j \in 1..(i - 1) :
                        s[CategoryOrder[j]] < s[CategoryOrder[i]]
    IN CategoryOrder[i]

\* `high_scores[0][1] - high_scores[1][1] < 0.1` is evaluated on IEEE-754
\* doubles.  Every score the matcher can produce is one double (0, 0.52,
\* 0.62..., 0.95), and for two scores exactly 0.1 apart the comparison is
\* true for the pairs below and false for the others ((0.62, 0.52) and
\* (0.86, 0.76)); everywhere else it agrees with the decimal comparison.
FloatBelowMarginAtBoundary ==
    {<<7200, 6200>>, <<7400, 6400>>, <<8400, 7400>>, <<9400, 8400>>}

WithinAmbiguityMargin(hi, lo) ==
    \/ hi - lo < AMBIGUITY_MARGIN
    \/ hi - lo = AMBIGUITY_MARGIN /\ <<hi, lo>> \in FloatBelowMarginAtBoundary

\* The ambiguity check of classify_intent_detailed: among the categories
\* scoring above 0.5, the two highest scores.
IsAmbiguous(t) ==
    LET s == Scores(t)
        high == {c \in Categories : s[c] > AMBIGUITY_FLOOR}
        best == BestIntent(t)
    IN /\ Cardinality(high) > 1
       /\ \E c \in high \ {best} :
            /\ \A d \in high \ {best} : s[d] <= s[c]
            /\ WithinAmbiguityMargin(s[best], s[c])

\* classify_intent_detailed: the IntentResult, reduced to the fields
\* classify_intent returns.
classify_intent_detailed(t) ==
    LET raw == Scores(t)[BestIntent(t)]
        best_score == IF IsAmbiguous(t) THEN Min(raw, AMBIGUITY_CAP) ELSE raw
    IN [intent |-> IF best_score < UNKNOWN_FLOOR THEN "unknown" ELSE BestIntent(t),
        confidence |-> best_score,
        requires_nlp |-> best_score < REQUIRES_NLP_BELOW]

\* classify_intent: (result.intent.value, result.confidence)
classify_intent(t) ==
    LET r == classify_intent_detailed(t)
    IN [intent |-> r.intent, confidence |-> r.confidence]

\* IntentType of rule_engine/intent_rules.py
RuleIntentTypes == {"rti", "complaint", "appeal", "follow_up", "escalation", "unknown"}

(***************************************************************************)
(* nlp/confidence_gate.py                                                  *)
(***************************************************************************)
\* class Thresholds, as loaded
DefaultThresholds ==
    [HIGH |-> 9000, MEDIUM |-> 7000, LOW |-> 5000,
     USE_NLP_BELOW |-> 7000, USE_DISTILBERT_BELOW |-> 6000,
     AUTO_APPLY_ABOVE |-> 9000]

\* The config dictionaries given to Thresholds.update: the defaults, a
\* configuration that moves the escalation thresholds, and one that moves
\* the level thresholds.  update() accepts any value for any key.
ThresholdConfigs ==
    { [high |-> 9000, medium |-> 7000, low |-> 5000, use_nlp_below |-> 7000,
       use_distilbert_below |-> 6000, auto_apply_above |-> 9000],
      [use_nlp_below |-> 10000, use_distilbert_below |-> 5000],
      [high |-> 8500, medium |-> 6500, low |-> 4000, auto_apply_above |-> 8500] }

\* Thresholds.update
Thresholds_update(th, config) ==
    [HIGH |-> IF "high" \in DOMAIN config THEN config.high ELSE th.HIGH,
     MEDIUM |-> IF "medium" \in DOMAIN config THEN config.medium ELSE th.MEDIUM,
     LOW |-> IF "low" \in DOMAIN config THEN config.low ELSE th.LOW,
     USE_NLP_BELOW |-> IF "use_nlp_below" \in DOMAIN config
                       THEN config.use_nlp_below ELSE th.USE_NLP_BELOW,
     USE_DISTILBERT_BELOW |-> IF "use_distilbert_below" \in DOMAIN config
                              THEN config.use_distilbert_below
                              ELSE th.USE_DISTILBERT_BELOW,
     AUTO_APPLY_ABOVE |-> IF "auto_apply_above" \in DOMAIN config
                          THEN config.auto_apply_above ELSE th.AUTO_APPLY_ABOVE]

ConfidenceLevels == {"high", "medium", "low", "very_low"}

get_confidence_level_strict_medium(confidence) ==
    IF confidence >= Thresholds.HIGH THEN "high"
    ELSE IF confidence > Thresholds.MEDIUM THEN "medium"
    ELSE IF confidence >= Thresholds.LOW THEN "low"
    ELSE "very_low"

\* get_confidence_level
get_confidence_level(confidence) ==
    IF confidence >= Thresholds.HIGH THEN "high"
    ELSE IF confidence >= Thresholds.MEDIUM THEN "medium"
    ELSE IF confidence >= Thresholds.LOW THEN "low"
    ELSE "very_low"

\* should_use_nlp
should_use_nlp(confidence) == confidence < Thresholds.USE_NLP_BELOW

\* should_use_distilbert
should_use_distilbert(nlp_confidence) ==
    nlp_confidence < Thresholds.USE_DISTILBERT_BELOW

\* gate_result: the GatedResult (explanation, timestamp and audit_id left out)
gate_result(value, confidence, alternatives) ==
    [value |-> value,
     confidence |-> confidence,
     level |-> get_confidence_level(confidence),
     requires_confirmation |->
        get_confidence_level(confidence) \in {"low", "very_low"},
     alternatives |-> alternatives,
     source |-> "rule_engine"]

\* should_ask_user
should_ask_user(confidence, is_legal_content, has_alternatives) ==
    IF is_legal_content THEN TRUE
    ELSE IF confidence < Thresholds.MEDIUM THEN TRUE
    ELSE IF confidence >= Thresholds.HIGH THEN FALSE
    ELSE has_alternatives

(***************************************************************************)
(* inference_orchestrator.py                                               *)
(***************************************************************************)
\* IntentType of inference_orchestrator.py
IntentType == {"rti", "complaint", "appeal", "unknown"}

\* RTI_DOCUMENT_INDICATORS and COMPLAINT_DOCUMENT_INDICATORS, in dictionary order
RTI_DOCUMENT_INDICATORS ==
    <<"information_request", "records_request", "inspection_request">>
COMPLAINT_DOCUMENT_INDICATORS == <<"grievance", "escalation", "follow_up">>

DocumentType ==
    {"information_request", "records_request", "inspection_request",
     "grievance", "escalation", "follow_up"}

determine_document_type_one_table(hits, an_intent) ==
    LET indicators == COMPLAINT_DOCUMENT_INDICATORS
        best == CHOOSE i \in 1..3 :
                    /\ \A j \in 1..3 : hits[j] <= hits[i]
                    /\ \A j \in 1..(i - 1) : hits[j] < hits[i]
    IN IF an_intent = "appeal" THEN "escalation"
       ELSE IF an_intent \notin {"rti", "complaint"} THEN "grievance"
       ELSE IF hits[best] > 0 THEN indicators[best]
       ELSE indicators[1]

\* _determine_document_type.  hits[i] is the number of indicator keywords of
\* the i-th document type of the intent's table that occur in the text.
determine_document_type(hits, an_intent) ==
    LET indicators == IF an_intent = "rti" THEN RTI_DOCUMENT_INDICATORS
                      ELSE COMPLAINT_DOCUMENT_INDICATORS
        best == CHOOSE i \in 1..3 :
                    /\ \A j \in 1..3 : hits[j] <= hits[i]
                    /\ \A j \in 1..(i - 1) : hits[j] < hits[i]
    IN IF an_intent = "appeal" THEN "escalation"
       ELSE IF an_intent \notin {"rti", "complaint"} THEN "grievance"
       ELSE IF hits[best] > 0 THEN indicators[best]
       ELSE indicators[1]

LEGAL_BOOST == 1000
LEGAL_BOOST_CAP == 9500
SEMANTIC_ADOPT_ABOVE == 6000
SEMANTIC_BOOST_CAP == 9000

legal_boost_any_intent(an_intent, confidence, t) ==
    LET a == IF t.rti_sections > 0
             THEN Min(LEGAL_BOOST_CAP, confidence + LEGAL_BOOST) ELSE confidence
    IN IF t.grievance_markers > 0
       THEN Min(LEGAL_BOOST_CAP, a + LEGAL_BOOST) ELSE a

\* run_inference, step 3: the boost for legal triggers that support the intent
legal_boost(an_intent, confidence, t) ==
    LET a == IF an_intent = "rti" /\ t.rti_sections > 0
             THEN Min(LEGAL_BOOST_CAP, confidence + LEGAL_BOOST) ELSE confidence
    IN IF an_intent = "complaint" /\ t.grievance_markers > 0
       THEN Min(LEGAL_BOOST_CAP, a + LEGAL_BOOST) ELSE a

legal_boost_entries(an_intent, t) ==
    (IF an_intent = "rti" /\ t.rti_sections > 0
     THEN <<"RTI sections confirmed (+10%)">> ELSE <<>>)
    \o (IF an_intent = "complaint" /\ t.grievance_markers > 0
        THEN <<"Grievance markers confirmed (+10%)">> ELSE <<>>)

distilbert_refine_at_threshold(an_intent, confidence, max_rti, max_complaint) ==
    IF an_intent = "unknown"
    THEN IF max_rti > max_complaint /\ max_rti >= SEMANTIC_ADOPT_ABOVE
         THEN [intent |-> "rti", confidence |-> (max_rti * 8) \div 10,
               entry |-> "DistilBERT suggests RTI"]
         ELSE IF max_complaint > max_rti /\ max_complaint >= SEMANTIC_ADOPT_ABOVE
         THEN [intent |-> "complaint", confidence |-> (max_complaint * 8) \div 10,
               entry |-> "DistilBERT suggests Complaint"]
         ELSE [intent |-> an_intent, confidence |-> confidence,
               entry |-> "DistilBERT inconclusive"]
    ELSE [intent |-> an_intent,
          confidence |-> Min(SEMANTIC_BOOST_CAP,
                             confidence + Max(max_rti, max_complaint) \div 10),
          entry |-> "DistilBERT boosted confidence"]

\* run_inference, step 4, the body of the try block once the similarities
\* are computed: max_rti * 0.8 and max(...) * 0.1 in fixed point.
distilbert_refine(an_intent, confidence, max_rti, max_complaint) ==
    IF an_intent = "unknown"
    THEN IF max_rti > max_complaint /\ max_rti > SEMANTIC_ADOPT_ABOVE
         THEN [intent |-> "rti", confidence |-> (max_rti * 8) \div 10,
               entry |-> "DistilBERT suggests RTI"]
         ELSE IF max_complaint > max_rti /\ max_complaint > SEMANTIC_ADOPT_ABOVE
         THEN [intent |-> "complaint", confidence |-> (max_complaint * 8) \div 10,
               entry |-> "DistilBERT suggests Complaint"]
         ELSE [intent |-> an_intent, confidence |-> confidence,
               entry |-> "DistilBERT inconclusive"]
    ELSE [intent |-> an_intent,
          confidence |-> Min(SEMANTIC_BOOST_CAP,
                             confidence + Max(max_rti, max_complaint) \div 10),
          entry |-> "DistilBERT boosted confidence"]

\* The alternatives run_inference hands to gate_result
final_alternatives(an_intent) ==
    IF an_intent = "unknown" THEN <<"rti", "complaint", "appeal">> ELSE <<>>

(***************************************************************************)
(* nlp/confidence_gate.py: the audit trail                                 *)
(***************************************************************************)
\* _max_audit_entries, scaled down from 1000
max_audit_entries == 4

\* The calls of log_gating_decision that one filling of the log is followed for
MaxAuditCalls == 6

log_gating_decision_unbounded(log, confidence) ==
    Append(log, [n |-> IF log = <<>> THEN 1 ELSE log[Len(log)].n + 1,
                 confidence |-> confidence,
                 confidence_level |-> get_confidence_level(confidence)])

\* log_gating_decision: the entry is appended, and over the maximum size the
\* first entry is popped.  n numbers the entries in the order of the calls
\* and stands for the audit_id, which is unique.
log_gating_decision(log, confidence) ==
    LET appended == Append(log,
                       [n |-> IF log = <<>> THEN 1 ELSE log[Len(log)].n + 1,
                        confidence |-> confidence,
                        confidence_level |-> get_confidence_level(confidence)])
    IN IF Len(appended) > max_audit_entries THEN Tail(appended) ELSE appended

\* get_audit_log(limit): _audit_log[-limit:]
get_audit_log(log, limit) ==
    IF limit = 0 \/ limit >= Len(log) THEN log
    ELSE SubSeq(log, Len(log) - limit + 1, Len(log))

(***************************************************************************)
(* rule_engine/legal_triggers.py: analyze_legal_context                    *)
(***************************************************************************)
SeverityLevel == {"critical", "high", "medium", "low"}

\* GRIEVANCE_MARKERS, in the order of the dict: the type of each marker, its
\* severity and its escalate_after_days
GRIEVANCE_MARKERS ==
    << [type |-> "service_delay",        severity |-> "medium",   escalate_after_days |-> 30],
       [type |-> "corruption",           severity |-> "critical", escalate_after_days |-> 0],
       [type |-> "misconduct",           severity |-> "high",     escalate_after_days |-> 7],
       [type |-> "infrastructure",       severity |-> "medium",   escalate_after_days |-> 15],
       [type |-> "denial_of_service",    severity |-> "high",     escalate_after_days |-> 7],
       [type |-> "negligence",           severity |-> "medium",   escalate_after_days |-> 15],
       [type |-> "fraud",                severity |-> "critical", escalate_after_days |-> 0],
       [type |-> "urgency_life_liberty", severity |-> "critical", escalate_after_days |-> 0] >>

MarkerTypes == {GRIEVANCE_MARKERS[i].type : i \in DOMAIN GRIEVANCE_MARKERS}

\* severity_order
severity_order == [s \in SeverityLevel |->
    CASE s = "low" -> 0 [] s = "medium" -> 1 [] s = "high" -> 2 [] s = "critical" -> 3]

\* The loop over GRIEVANCE_MARKERS: one GrievanceMarker for each marker with
\* a trigger in the text, and the greatest severity met, starting from LOW
RECURSIVE find_grievance_markers(_, _, _, _)
find_grievance_markers(a_text, i, found, max_severity) ==
    IF i > Len(GRIEVANCE_MARKERS)
    THEN [grievance_markers |-> found, max_severity |-> max_severity]
    ELSE LET marker_data == GRIEVANCE_MARKERS[i]
         IN IF marker_data.type \in a_text.markers
            THEN find_grievance_markers(a_text, i + 1,
                    Append(found,
                           [type |-> marker_data.type,
                            severity |-> marker_data.severity,
                            escalation_needed |-> marker_data.escalate_after_days = 0]),
                    IF severity_order[marker_data.severity] > severity_order[max_severity]
                    THEN marker_data.severity ELSE max_severity)
            ELSE find_grievance_markers(a_text, i + 1, found, max_severity)

\* The applicable timeline ("None" for None)
timeline_applicable(a_text) ==
    IF a_text.life_liberty_word
    THEN "48 hours (Section 7(1) proviso - life/liberty)"
    ELSE IF "Section 6" \in a_text.sections
    THEN "30 days (Section 7(1))"
    ELSE IF "Section 19" \in a_text.sections
    THEN IF a_text.second_appeal
         THEN "90 days from First Appeal (Section 19(3))"
         ELSE "30 days from decision (Section 19(1))"
    ELSE "None"

\* analyze_legal_context(text).  The text is given by what the function
\* reads of it: the sections whose triggers it contains (of those that the
\* timeline reads), the markers whose triggers it contains, whether a word
\* of it contains "life", "liberty" or "emergency", and whether it contains
\* "second appeal".
analyze_legal_context(a_text) ==
    LET m == find_grievance_markers(a_text, 1, <<>>, "low")
    IN [rti_sections |-> a_text.sections,
        grievance_markers |-> m.grievance_markers,
        overall_severity |-> m.max_severity,
        timeline_applicable |-> timeline_applicable(a_text)]

(***************************************************************************)
(* nlp/distilbert_semantic.py: the embedding cache                         *)
(***************************************************************************)
\* _cache_max_size, scaled down from 1000
cache_max_size == 3

\* The three RTI templates and the three complaint templates of run_inference
Templates ==
    <<"rti_template_1", "rti_template_2", "rti_template_3",
      "complaint_template_1", "complaint_template_2", "complaint_template_3">>

\* The texts given to get_embedding directly
DirectTexts == {"text_a", "text_b", "text_c", "text_d", "text_e", "text_f"}

get_cache_key_one_digest(a_text) == "md5()"

\* _get_cache_key(text): the MD5 digest of the text, one digest per text
get_cache_key(a_text) == "md5(" \o a_text \o ")"

\* The cache is a dict in insertion order: a sequence of entries, each the
\* key and the embedding stored under it.  An embedding is named by the
\* text it was computed from.
CachedKeys(cache) == {cache[i].key : i \in DOMAIN cache}
CachedEmbedding(cache, key) ==
    cache[CHOOSE i \in DOMAIN cache : cache[i].key = key].embedding

\* _manage_cache: over the maximum size, the first half of the keys goes
manage_cache(cache) ==
    IF Len(cache) > cache_max_size
    THEN SubSeq(cache, Len(cache) \div 2 + 1, Len(cache))
    ELSE cache

\* get_embedding(text): a hit returns the cached embedding at once, a miss
\* computes the embedding, calls _manage_cache and then stores it.
get_embedding(cache, a_text) ==
    LET cache_key == get_cache_key(a_text)
    IN IF cache_key \in CachedKeys(cache)
       THEN [cache |-> cache, embedding |-> CachedEmbedding(cache, cache_key)]
       ELSE [cache |-> Append(manage_cache(cache),
                              [key |-> cache_key, embedding |-> a_text]),
             embedding |-> a_text]

\* compute_similarity(text1, text2), its effect on the cache:
\* get_embedding of one text, then of the other
compute_similarity(cache, text1, text2) ==
    get_embedding(get_embedding(cache, text1).cache, text2).cache

\* run_inference, step 4: compute_similarity(text, t) for each RTI template
\* and then for each complaint template
RECURSIVE template_similarities(_, _, _)
template_similarities(cache, a_text, templates) ==
    IF templates = <<>> THEN cache
    ELSE template_similarities(compute_similarity(cache, a_text, Head(templates)),
                               a_text, Tail(templates))

(***************************************************************************)
(* llm/text_enhancer.py: enhance_draft_text                                *)
(***************************************************************************)
\* A text is given by its wording and by how often each bracketed token
\* occurs in it.  Of the tokens two are of the form the enhancer looks for
\* and one, "[Department Address]" of the draft assembler, is not.
BracketTokens == {"NAME", "DATE", "Department Address"}

\* re.findall(r'\[([A-Z_]+)\]', draft_text): the names made of capital
\* letters and underscores only
find_placeholders(a_text) ==
    {ph \in {"NAME", "DATE"} : a_text.tokens[ph] > 0}

\* `f"[{ph}]" in enhanced`
ContainsToken(a_text, ph) == a_text.tokens[ph] > 0

enhance_draft_text_unverified(draft_text, preserve_placeholders, llm) ==
    IF llm.kind = "unavailable" \/ llm.kind = "error"
    THEN [original_text |-> draft_text, enhanced_text |-> draft_text,
          was_enhanced |-> FALSE, error |-> llm.kind = "error"]
    ELSE [original_text |-> draft_text, enhanced_text |-> llm.enhanced_text,
          was_enhanced |-> ~llm.fallback_used, error |-> FALSE]

\* enhance_draft_text(draft_text, ..., preserve_placeholders), given what the
\* LLM service did: it was not available, its call raised, or it returned
\* a response (enhanced_text, fallback_used).
enhance_draft_text(draft_text, preserve_placeholders, llm) ==
    LET placeholders == IF preserve_placeholders
                        THEN find_placeholders(draft_text) ELSE {}
        unchanged == [original_text |-> draft_text, enhanced_text |-> draft_text,
                      was_enhanced |-> FALSE, error |-> FALSE]
    IN IF llm.kind = "unavailable" THEN unchanged
       ELSE IF llm.kind = "error" THEN [unchanged EXCEPT !.error = TRUE]
       ELSE IF \E ph \in placeholders : ~ContainsToken(llm.enhanced_text, ph)
       THEN [unchanged EXCEPT !.error = TRUE]
       ELSE [original_text |-> draft_text, enhanced_text |-> llm.enhanced_text,
             was_enhanced |-> ~llm.fallback_used, error |-> FALSE]

(***************************************************************************)
(* Concurrent callers                                                      *)
(***************************************************************************)
\* The threads that call the cache and the audit log at the same time
Threads == {1, 2}

\* A thread that is in no call
ThreadIdle == [pc |-> "idle", key |-> "", keys |-> <<>>, error |-> "none"]

\* The cache without the entry of a key (del _embedding_cache[key])
DeleteKey(cache, key) == SelectSeq(cache, LAMBDA e : e.key # key)

(***************************************************************************)
(* Inputs                                                                  *)
(***************************************************************************)
\* The keyword matches of a text, in a canonical form: how often each
\* (category, weight) keyword class matches.
MatchSeqs == UNION {[1..n -> Keywords] : n \in 0..MaxMatches}
BagOf(seq) ==
    [k \in Keywords |-> Cardinality({i \in 1..Len(seq) : seq[i] = k})]

MatchBags == {BagOf(ms) : ms \in MatchSeqs}

\* The keyword matches of a text given to classify_intent_detailed directly
DirectMatchSeqs == UNION {[1..n -> Keywords] : n \in 0..MaxDirectMatches}
DirectMatchBags == {BagOf(ms) : ms \in DirectMatchSeqs}
NoMatches == BagOf(<<>>)

\* Cosine similarities returned by compute_similarity (clamped to [0, 1])
Similarities == {0, 6000, 6100, 10000}

\* (max(rti_scores), max(complaint_scores)) of a text: the embedding of a
\* text is a function of the text, so the two maxima are as well.  The
\* pairs: nothing similar, a top score of exactly 0.6, a top score just
\* above 0.6 and just above the runner-up, a top score of 1.0, and a tie.
SimilarityPairs ==
    {<<0, 0>>, <<6000, 0>>, <<6100, 6000>>, <<6000, 10000>>, <<10000, 10000>>}

\* The number of RTI sections, and of grievance markers, found in a text:
\* none or MaxTriggers (run_inference reads only whether the list is empty).
TriggerCounts == {0, MaxTriggers}

\* The abstraction of a text
Text(bag, r, g, blank, sims) ==
    [matches |-> bag, rti_sections |-> r, grievance_markers |-> g,
     blank |-> blank, max_rti |-> sims[1], max_complaint |-> sims[2]]

\* An empty or whitespace-only text matches no keyword and no trigger
BlankAllowed(bag, r, g) == bag = NoMatches /\ r = 0 /\ g = 0

\* Scores given to direct calls of the gate functions
ScoreSamples == {0, 4999, 5000, 6999, 7000, 8999, 9000, 10000}

\* The texts given to analyze_legal_context.  A word with "life" or
\* "liberty" in it is a trigger of Section 7, "emergency" is a trigger of
\* the urgency_life_liberty marker, and "second appeal" contains the
\* trigger "appeal" of Section 19.
MaxMarkers == 1
TimelineSections == {"Section 6", "Section 7", "Section 19"}
LegalTexts ==
    { t \in [sections : SUBSET TimelineSections,
             markers : {ms \in SUBSET MarkerTypes : Cardinality(ms) <= MaxMarkers},
             life_liberty_word : BOOLEAN,
             second_appeal : BOOLEAN] :
        /\ t.life_liberty_word =>
                ("Section 7" \in t.sections \/ "urgency_life_liberty" \in t.markers)
        /\ t.second_appeal => "Section 19" \in t.sections }

\* Two texts that are run more than once: "I need some help." (no keyword,
\* no trigger) and a text with one complaint keyword of weight 0.3, each
\* with its name and the similarities of its embedding to the templates.
RepeatedTexts ==
    { [name |-> "text_a"] @@ Text(NoMatches, 0, 0, FALSE, <<6100, 6000>>),
      [name |-> "text_b"]
        @@ Text(BagOf(<<<<"complaint", 3000>>>>), 0, 0, FALSE, <<6000, 10000>>) }

(***************************************************************************)
(* State machine                                                           *)
(***************************************************************************)
Idle ==
    /\ pc = "idle"
    /\ fn = ""
    /\ text = <<>>
    /\ args = <<>>
    /\ intent = "unknown"
    /\ rule_confidence = 0
    /\ adjusted_confidence = 0
    /\ decision_path = <<>>
    /\ invoked = {}
    /\ document_type = "none"
    /\ gated = <<>>
    /\ ask = <<>>
    /\ result = <<>>
    /\ raised = "none"
    /\ verdict = <<>>
    /\ legal = <<>>
    /\ outcome = <<>>

\* The client identifiers _get_client_id can return for the requests sent
ClientIds == {"10.0.0.1", "unknown"}

\* RateLimitMiddleware.__init__: nothing counted yet, no request in progress
LimiterConstructed ==
    /\ request_counts = [c \in ClientIds |-> <<>>]
    /\ clock = 0
    /\ in_flight = EmptyBag
    /\ admissions = [c \in ClientIds |-> <<>>]
    /\ last_decision = <<>>

Init ==
    /\ Thresholds = DefaultThresholds
    /\ Idle
    /\ embedding_cache = <<>>
    /\ tracked = FALSE
    /\ first_run = <<>>
    /\ audit_log = <<>>
    /\ threads = [t \in Threads |-> ThreadIdle]
    /\ LimiterConstructed
    /\ rate_limit_enabled = TRUE

\* Thresholds.update(config), between two calls
UpdateThresholds ==
    /\ pc = "idle"
    /\ \E config \in ThresholdConfigs :
            Thresholds' = Thresholds_update(Thresholds, config)
    /\ UNCHANGED <<pc, fn, text, args, intent, rule_confidence,
                   adjusted_confidence, decision_path, invoked, document_type,
                   gated, ask, result, raised>>
    /\ UNCHANGED <<direct_results, service_state>>

\* A caller calls gate_result directly.  is_legal_content is what the
\* caller knows about the content: gate_result has no parameter for it.
Call_gate_result ==
    /\ pc = "idle"
    /\ \E value \in {"rti", "unknown"}, confidence \in ScoreSamples,
          is_legal_content \in BOOLEAN :
        /\ args' = <<[confidence |-> confidence,
                      is_legal_content |-> is_legal_content,
                      has_alternatives |-> value = "unknown"]>>
        /\ gated' = <<gate_result(value, confidence, final_alternatives(value))>>
    /\ fn' = "gate_result"
    /\ pc' = "done"
    /\ UNCHANGED <<Thresholds, text, intent, rule_confidence,
                   adjusted_confidence, decision_path, invoked, document_type,
                   ask, result, raised>>
    /\ UNCHANGED <<direct_results, service_state>>

\* A caller calls should_ask_user
Call_should_ask_user ==
    /\ pc = "idle"
    /\ \E confidence \in ScoreSamples, is_legal_content \in BOOLEAN,
          has_alternatives \in BOOLEAN :
        /\ args' = <<[confidence |-> confidence,
                      is_legal_content |-> is_legal_content,
                      has_alternatives |-> has_alternatives]>>
        /\ ask' = <<should_ask_user(confidence, is_legal_content, has_alternatives)>>
    /\ fn' = "should_ask_user"
    /\ pc' = "done"
    /\ UNCHANGED <<Thresholds, text, intent, rule_confidence,
                   adjusted_confidence, decision_path, invoked, document_type,
                   gated, result, raised>>
    /\ UNCHANGED <<direct_results, service_state>>

\* A caller calls classify_intent_detailed(text) directly
Call_classify_intent_detailed ==
    /\ pc = "idle"
    /\ \E bag \in DirectMatchBags, blank \in BOOLEAN :
        /\ blank => BlankAllowed(bag, 0, 0)
        /\ LET t == Text(bag, 0, 0, blank, <<0, 0>>)
           IN /\ text' = <<t>>
              /\ verdict' = <<classify_intent_detailed(t)>>
    /\ fn' = "classify_intent_detailed"
    /\ pc' = "done"
    /\ UNCHANGED <<Thresholds, args, intent, rule_confidence,
                   adjusted_confidence, decision_path, invoked, document_type,
                   gated, ask, result, raised, legal, outcome, service_state>>

\* A caller calls analyze_legal_context(text) directly
Call_analyze_legal_context ==
    /\ pc = "idle"
    /\ \E t \in LegalTexts :
        /\ args' = <<t>>
        /\ legal' = <<analyze_legal_context(t)>>
    /\ fn' = "analyze_legal_context"
    /\ pc' = "done"
    /\ UNCHANGED <<Thresholds, text, intent, rule_confidence,
                   adjusted_confidence, decision_path, invoked, document_type,
                   gated, ask, result, raised, verdict, outcome, service_state>>

\* run_inference(text) is called
Call_run_inference ==
    /\ pc = "idle"
    /\ \E bag \in MatchBags, r \in TriggerCounts, g \in TriggerCounts,
          blank \in BOOLEAN, sims \in SimilarityPairs :
        /\ blank => BlankAllowed(bag, r, g)
        /\ text' = <<Text(bag, r, g, blank, sims)>>
    /\ fn' = "run_inference"
    /\ pc' = "step1"
    /\ UNCHANGED <<Thresholds, args, intent, rule_confidence,
                   adjusted_confidence, decision_path, invoked, document_type,
                   gated, ask, result, raised>>
    /\ UNCHANGED <<direct_results, service_state>>

\* STEP 1: rule engine, legal triggers, department mapping.  IntentType(...)
\* raises ValueError for a value that is no member of the orchestrator's enum.
Step1_RuleEngine ==
    /\ pc = "step1"
    /\ LET r == classify_intent(text[1]) IN
        IF r.intent \in IntentType
        THEN /\ intent' = r.intent
             /\ rule_confidence' = r.confidence
             /\ decision_path' = decision_path \o <<"Rule Engine", "Legal Triggers">>
             /\ invoked' = invoked \cup {"classify_intent", "detect_legal_triggers",
                                         "map_issue_to_department"}
             /\ pc' = "step2"
             /\ UNCHANGED raised
        ELSE /\ decision_path' = decision_path \o <<"Rule Engine">>
             /\ invoked' = invoked \cup {"classify_intent"}
             /\ raised' = "ValueError"
             /\ pc' = "raised"
             /\ UNCHANGED <<intent, rule_confidence>>
    /\ UNCHANGED <<Thresholds, fn, text, args, adjusted_confidence,
                   document_type, gated, ask, result>>
    /\ UNCHANGED <<direct_results, service_state>>

\* STEP 2: spaCy entity extraction, key phrases, sentiment
Step2_SpacyNLP ==
    /\ pc = "step2"
    /\ decision_path' = decision_path \o <<"spaCy NLP">>
    /\ invoked' = invoked \cup {"extract_entities", "extract_key_phrases",
                                "analyze_sentiment_basic"}
    /\ pc' = "step3"
    /\ UNCHANGED <<Thresholds, fn, text, args, intent, rule_confidence,
                   adjusted_confidence, document_type, gated, ask, result, raised>>
    /\ UNCHANGED <<direct_results, service_state>>

\* STEP 2 when get_nlp() raises RuntimeError (spaCy model not installed):
\* extract_entities is called outside any try block.
Step2_SpacyRaises ==
    /\ pc = "step2"
    /\ decision_path' = decision_path \o <<"spaCy NLP">>
    /\ invoked' = invoked \cup {"extract_entities"}
    /\ raised' = "RuntimeError"
    /\ pc' = "raised"
    /\ UNCHANGED <<Thresholds, fn, text, args, intent, rule_confidence,
                   adjusted_confidence, document_type, gated, ask, result>>
    /\ UNCHANGED <<direct_results, service_state>>

\* STEP 3: confidence gate, boosts for supporting legal triggers
Step3_ConfidenceGate ==
    /\ pc = "step3"
    /\ adjusted_confidence' = legal_boost(intent, rule_confidence, text[1])
    /\ decision_path' = decision_path \o <<"Confidence Gate">>
                        \o legal_boost_entries(intent, text[1])
    /\ pc' = "step4"
    /\ UNCHANGED <<Thresholds, fn, text, args, intent, rule_confidence, invoked,
                   document_type, gated, ask, result, raised>>
    /\ UNCHANGED <<direct_results, service_state>>

\* The condition of step 4's if statement
step4_condition(confidence) == should_use_nlp(confidence)

\* STEP 4, else branch: DistilBERT is not used
Step4_Skip ==
    /\ pc = "step4"
    /\ ~step4_condition(adjusted_confidence)
    /\ decision_path' = decision_path \o <<"DistilBERT skipped (confidence sufficient)">>
    /\ pc' = "step5"
    /\ UNCHANGED <<Thresholds, fn, text, args, intent, rule_confidence,
                   adjusted_confidence, invoked, document_type, gated, ask,
                   result, raised>>
    /\ UNCHANGED <<direct_results, service_state>>

\* The cache after step 4's similarities, where the cache is followed
cache_after_step4 ==
    IF tracked
    THEN template_similarities(embedding_cache, text[1].name, Templates)
    ELSE embedding_cache

\* The text whose embedding get_embedding(text) returns in step 4
embedded_text ==
    IF tracked
    THEN LET e == get_embedding(embedding_cache, text[1].name).embedding
         IN CHOOSE t \in RepeatedTexts : t.name = e
    ELSE text[1]

\* STEP 4: DistilBERT similarities against the RTI and complaint templates
Step4_DistilBERT ==
    /\ pc = "step4"
    /\ step4_condition(adjusted_confidence)
    /\ LET r == distilbert_refine(intent, adjusted_confidence,
                                  embedded_text.max_rti,
                                  embedded_text.max_complaint)
       IN /\ intent' = r.intent
          /\ adjusted_confidence' = r.confidence
          /\ decision_path' = decision_path
                              \o <<"DistilBERT (semantic boost)", r.entry>>
    /\ invoked' = invoked \cup {"compute_similarity"}
    /\ embedding_cache' = cache_after_step4
    /\ pc' = "step5"
    /\ UNCHANGED <<Thresholds, fn, text, args, rule_confidence, document_type,
                   gated, ask, result, raised>>
    /\ UNCHANGED <<direct_results, tracked, first_run, side_state>>

\* STEP 4 when compute_similarity raises (get_model cannot load the model,
\* or the forward pass fails, at the first embedding that is not cached):
\* the except clause records it and the run goes on.
Step4_DistilBERTRaises ==
    /\ pc = "step4"
    /\ step4_condition(adjusted_confidence)
    /\ tracked =>
         \E t \in {text[1].name} \cup {Templates[i] : i \in DOMAIN Templates} :
            get_cache_key(t) \notin CachedKeys(embedding_cache)
    /\ decision_path' = decision_path
                        \o <<"DistilBERT (semantic boost)", "DistilBERT skipped (error)">>
    /\ invoked' = invoked \cup {"compute_similarity"}
    /\ pc' = "step5"
    /\ UNCHANGED <<Thresholds, fn, text, args, intent, rule_confidence,
                   adjusted_confidence, document_type, gated, ask, result, raised>>
    /\ UNCHANGED <<direct_results, service_state>>

\* STEP 5: document type.  The indicator keywords are counted in the text
\* only for an RTI or a complaint intent; the other intents return at once.
Step5_DocumentType ==
    /\ pc = "step5"
    /\ IF intent \in {"rti", "complaint"}
       THEN \E hits \in [1..3 -> 0..MaxIndicatorHits] :
                document_type' = determine_document_type(hits, intent)
       ELSE document_type' = determine_document_type([i \in 1..3 |-> 0], intent)
    /\ decision_path' = decision_path \o <<"Document type">>
    /\ pc' = "step6"
    /\ UNCHANGED <<Thresholds, fn, text, args, intent, rule_confidence,
                   adjusted_confidence, invoked, gated, ask, result, raised>>
    /\ UNCHANGED <<direct_results, service_state>>

\* STEP 6: final confidence gate, and the InferenceResult returned
Step6_FinalGate ==
    /\ pc = "step6"
    /\ LET g == gate_result(intent, adjusted_confidence, final_alternatives(intent))
       IN /\ gated' = <<g>>
          /\ result' = <<[intent |-> intent,
                          document_type |-> document_type,
                          confidence |-> adjusted_confidence,
                          confidence_level |-> g.level,
                          requires_confirmation |-> g.requires_confirmation,
                          decision_path |-> decision_path]>>
    /\ invoked' = invoked \cup {"gate_result"}
    /\ pc' = "done"
    /\ UNCHANGED <<Thresholds, fn, text, args, intent, rule_confidence,
                   adjusted_confidence, decision_path, document_type, ask, raised>>
    /\ UNCHANGED <<direct_results, service_state>>

\* The call has returned or raised: its locals are discarded.  Where the
\* behaviour is followed across runs, the first completed run is remembered.
Return ==
    /\ pc \in {"done", "raised"}
    /\ pc' = "idle"
    /\ fn' = ""
    /\ text' = <<>>
    /\ args' = <<>>
    /\ intent' = "unknown"
    /\ rule_confidence' = 0
    /\ adjusted_confidence' = 0
    /\ decision_path' = <<>>
    /\ invoked' = {}
    /\ document_type' = "none"
    /\ gated' = <<>>
    /\ ask' = <<>>
    /\ result' = <<>>
    /\ raised' = "none"
    /\ verdict' = <<>>
    /\ legal' = <<>>
    /\ outcome' = <<>>
    /\ first_run' = (IF tracked /\ first_run = <<>> /\ result # <<>>
                     THEN <<[text |-> text[1], Thresholds |-> Thresholds,
                             decision_path |-> result[1].decision_path,
                             intent |-> result[1].intent,
                             confidence |-> result[1].confidence]>>
                     ELSE first_run)
    /\ UNCHANGED <<Thresholds, embedding_cache, tracked, side_state>>

Next ==
    \/ UpdateThresholds
    \/ Call_gate_result
    \/ Call_should_ask_user
    \/ Call_classify_intent_detailed
    \/ Call_analyze_legal_context
    \/ Call_run_inference
    \/ Step1_RuleEngine
    \/ Step2_SpacyNLP
    \/ Step2_SpacyRaises
    \/ Step3_ConfidenceGate
    \/ Step4_Skip
    \/ Step4_DistilBERT
    \/ Step4_DistilBERTRaises
    \/ Step5_DocumentType
    \/ Step6_FinalGate
    \/ Return

Spec == Init /\ [][Next]_vars

\* get_embedding(text) is called directly
Call_get_embedding ==
    /\ pc = "idle"
    /\ \E a_text \in DirectTexts :
            embedding_cache' = get_embedding(embedding_cache, a_text).cache
    /\ UNCHANGED <<Thresholds, pc, fn, text, args, intent, rule_confidence,
                   adjusted_confidence, decision_path, invoked, document_type,
                   gated, ask, result, raised, direct_results, tracked, first_run,
                   side_state>>

\* clear_cache()
Call_clear_cache ==
    /\ pc = "idle"
    /\ embedding_cache # <<>>
    /\ embedding_cache' = <<>>
    /\ UNCHANGED <<Thresholds, pc, fn, text, args, intent, rule_confidence,
                   adjusted_confidence, decision_path, invoked, document_type,
                   gated, ask, result, raised, direct_results, tracked, first_run,
                   side_state>>

\* The embedding cache under direct calls
InitCache ==
    /\ Thresholds = DefaultThresholds
    /\ Idle
    /\ embedding_cache = <<>>
    /\ tracked = TRUE
    /\ first_run = <<>>
    /\ audit_log = <<>>
    /\ threads = [t \in Threads |-> ThreadIdle]
    /\ LimiterConstructed
    /\ rate_limit_enabled = TRUE

NextCache ==
    \/ Call_get_embedding
    \/ Call_clear_cache

SpecCache == InitCache /\ [][NextCache]_vars

\* The confidences of the decisions given to log_gating_decision
LoggedConfidences == {2000, 6000, 9500}

\* log_gating_decision(...) is called
Call_log_gating_decision ==
    /\ pc = "idle"
    /\ IF audit_log = <<>> THEN TRUE
       ELSE audit_log[Len(audit_log)].n < MaxAuditCalls
    /\ \E confidence \in LoggedConfidences :
            audit_log' = log_gating_decision(audit_log, confidence)
    /\ UNCHANGED <<Thresholds, pc, fn, text, args, intent, rule_confidence,
                   adjusted_confidence, decision_path, invoked, document_type,
                   gated, ask, result, raised, direct_results,
                   embedding_cache, tracked, first_run, threads,
                   limiter_state>>

\* clear_audit_log()
Call_clear_audit_log ==
    /\ pc = "idle"
    /\ audit_log # <<>>
    /\ audit_log' = <<>>
    /\ UNCHANGED <<Thresholds, pc, fn, text, args, intent, rule_confidence,
                   adjusted_confidence, decision_path, invoked, document_type,
                   gated, ask, result, raised, direct_results,
                   embedding_cache, tracked, first_run, threads,
                   limiter_state>>

\* The audit log under direct calls
NextAudit ==
    \/ Call_log_gating_decision
    \/ Call_clear_audit_log

SpecAudit == Init /\ [][NextAudit]_vars

\* The drafts given to the enhancer and the texts the LLM may answer with
MaxOccurrences == 2
DraftTexts ==
    [wording : {"rule_based"}, tokens : [BracketTokens -> 0..MaxOccurrences]]
LLMTexts ==
    [wording : {"rule_based", "polished"},
     tokens : [BracketTokens -> 0..MaxOccurrences]]

\* What the LLM service does with a draft: OpenAIService.enhance_text
\* returns the draft itself with fallback_used set when the client fails,
\* and otherwise whatever text the model answered.
LLMOutcomes(draft_text) ==
    {[kind |-> "unavailable"], [kind |-> "error"],
     [kind |-> "response", enhanced_text |-> draft_text, fallback_used |-> TRUE]}
    \cup {[kind |-> "response", enhanced_text |-> t, fallback_used |-> FALSE] :
            t \in LLMTexts}

\* enhance_draft_text(draft_text, preserve_placeholders=...) is called
Call_enhance_draft_text ==
    /\ pc = "idle"
    /\ \E draft_text \in DraftTexts, preserve_placeholders \in BOOLEAN :
        \E llm \in LLMOutcomes(draft_text) :
            /\ args' = <<[draft_text |-> draft_text,
                          preserve_placeholders |-> preserve_placeholders,
                          llm |-> llm]>>
            /\ outcome' = <<enhance_draft_text(draft_text, preserve_placeholders, llm)>>
    /\ fn' = "enhance_draft_text"
    /\ pc' = "done"
    /\ UNCHANGED <<Thresholds, text, intent, rule_confidence,
                   adjusted_confidence, decision_path, invoked, document_type,
                   gated, ask, result, raised, verdict, legal, service_state>>

NextEnhancer ==
    \/ Call_enhance_draft_text
    \/ Return

SpecEnhancer == Init /\ [][NextEnhancer]_vars

\* ---------------------------------------------------------------------
\* Draft assembly (draft_assembler.py)
\* ---------------------------------------------------------------------

\* DraftAssembler.DEFAULT_PLACEHOLDERS: the names that have a default text
DEFAULT_PLACEHOLDERS ==
    {"TIME_PERIOD", "PAYMENT_MODE", "PROBLEM_DURATION", "PREVIOUS_ATTEMPTS",
     "IMPACT_DESCRIPTION", "AFFECTED_LOCATION", "START_DATE"}

\* The document types assemble_draft treats as RTI requests
RtiDocumentTypes ==
    {"information_request", "records_request", "inspection_request"}

\* The document types the assembler is exercised with
AssembledDocumentTypes == {"information_request", "grievance"}

\* The {PLACEHOLDER} tokens of the template of a document type, as
\* _extract_placeholders finds them. The template files are not part of
\* the source tree; each template is taken to hold the tokens assemble_draft
\* gives a value to for its kind of document.
TemplatePlaceholders(a_document_type) ==
    {"APPLICANT_NAME", "APPLICANT_ADDRESS", "APPLICANT_CONTACT",
     "DEPARTMENT_ADDRESS", "AUTHORITY_DESIGNATION", "DATE", "PLACE"}
    \cup (IF a_document_type \in RtiDocumentTypes
          THEN {"INFORMATION_REQUESTED", "TIME_PERIOD", "PAYMENT_MODE"}
          ELSE {"GRIEVANCE_DESCRIPTION", "ISSUE_CATEGORY", "AFFECTED_LOCATION",
                "PROBLEM_DURATION"})

\* The arguments of assemble_draft a caller may leave empty or unset
RecordFields ==
    {"applicant_name", "applicant_address", "applicant_state",
     "applicant_phone", "applicant_email", "issue_description",
     "specific_request", "time_period", "authority_designation",
     "department_address"}

\* additional_context: not passed, passed with a location, passed without
AdditionalContexts == {"none", "with_location", "without_location"}

\* The value assemble_draft computes for a placeholder, by its origin:
\* "given" (from the caller's record), "builtin" (a default text written in
\* the code outside the default table), "table" (the default table's
\* text), "empty" (an empty string or None) or "absent" (no entry).
\* `given` is the set of record fields that carry a non-empty value.
placeholder_value(a_document_type, given, context, placeholder) ==
    CASE placeholder = "APPLICANT_NAME" ->
            IF "applicant_name" \in given THEN "given" ELSE "empty"
      [] placeholder = "APPLICANT_ADDRESS" ->
            IF "applicant_address" \in given \/ "applicant_state" \in given
            THEN "given" ELSE "empty"
      [] placeholder = "APPLICANT_CONTACT" ->
            IF "applicant_phone" \in given \/ "applicant_email" \in given
            THEN "given" ELSE "empty"
      [] placeholder = "DEPARTMENT_ADDRESS" ->
            IF "department_address" \in given THEN "given" ELSE "builtin"
      [] placeholder = "AUTHORITY_DESIGNATION" ->
            IF "authority_designation" \in given THEN "given" ELSE "builtin"
      [] placeholder = "DATE" -> "given"
      [] placeholder = "PLACE" ->
            IF "applicant_state" \in given THEN "given" ELSE "empty"
      [] placeholder = "INFORMATION_REQUESTED" /\ a_document_type \in RtiDocumentTypes ->
            IF "specific_request" \in given \/ "issue_description" \in given
            THEN "given" ELSE "empty"
      [] placeholder = "TIME_PERIOD" /\ a_document_type \in RtiDocumentTypes ->
            IF "time_period" \in given THEN "given" ELSE "table"
      [] placeholder = "PAYMENT_MODE" /\ a_document_type \in RtiDocumentTypes -> "table"
      [] placeholder = "GRIEVANCE_DESCRIPTION" /\ a_document_type \notin RtiDocumentTypes ->
            IF "issue_description" \in given THEN "given" ELSE "empty"
      [] placeholder = "ISSUE_CATEGORY" /\ a_document_type \notin RtiDocumentTypes -> "builtin"
      [] placeholder = "AFFECTED_LOCATION" /\ a_document_type \notin RtiDocumentTypes ->
            CASE context = "none" -> "table"
              [] context = "with_location" -> "given"
              [] OTHER -> "empty"
      [] placeholder = "PROBLEM_DURATION" /\ a_document_type \notin RtiDocumentTypes ->
            IF "time_period" \in given THEN "given" ELSE "table"
      [] OTHER -> "absent"

\* What the fill loop of assemble_draft leaves in the place of a template
\* placeholder: its value, the default table's text, nothing ("removed")
\* or the literal token
fill_placeholder(value, placeholder) ==
    IF value \notin {"empty", "absent"} THEN value
    ELSE IF placeholder \in DEFAULT_PLACEHOLDERS THEN "table"
    ELSE IF placeholder = "APPLICANT_CONTACT" THEN "removed"
    ELSE "literal"

\* The fill loop without its last branch: a placeholder left as a literal
\* token is not reported
flagged_missing_defaults_only(value, placeholder) ==
    /\ value \in {"empty", "absent"}
    /\ placeholder \in DEFAULT_PLACEHOLDERS

\* Whether the fill loop appends the placeholder to placeholders_missing
flagged_missing(value, placeholder) ==
    /\ value \in {"empty", "absent"}
    /\ \/ placeholder \in DEFAULT_PLACEHOLDERS
       \/ placeholder # "APPLICANT_CONTACT"

\* DraftAssembler.assemble_draft: raises when no template is loaded for the
\* document type, otherwise fills every placeholder of the template
assemble_draft(a_document_type, given, context, template_loaded) ==
    IF ~template_loaded
    THEN [raised |-> "ValueError"]
    ELSE LET template_placeholders == TemplatePlaceholders(a_document_type)
             value(p) == placeholder_value(a_document_type, given, context, p)
         IN  [raised |-> "none",
              draft_text |-> [p \in template_placeholders |->
                                fill_placeholder(value(p), p)],
              placeholders_filled |-> {p \in template_placeholders :
                     value(p) \notin {"empty", "absent"}},
              placeholders_missing |-> {p \in template_placeholders :
                                          flagged_missing(value(p), p)}]

\* assemble_draft(document_type, ...) is called with some record
Call_assemble_draft ==
    /\ pc = "idle"
    /\ \E a_document_type \in AssembledDocumentTypes,
          given \in SUBSET RecordFields,
          context \in AdditionalContexts,
          template_loaded \in BOOLEAN :
        /\ a_document_type \in RtiDocumentTypes => context = "none"
        /\ args' = <<[document_type |-> a_document_type, given |-> given,
                      context |-> context, template_loaded |-> template_loaded]>>
        /\ outcome' = <<assemble_draft(a_document_type, given, context,
                                       template_loaded)>>
    /\ fn' = "assemble_draft"
    /\ pc' = "done"
    /\ UNCHANGED <<Thresholds, text, intent, rule_confidence,
                   adjusted_confidence, decision_path, invoked, document_type,
                   gated, ask, result, raised, verdict, legal, service_state>>

NextAssembler ==
    \/ Call_assemble_draft
    \/ Return

SpecAssembler == Init /\ [][NextAssembler]_vars

\* ---------------------------------------------------------------------
\* Authority resolution (authority_resolver.py)
\* ---------------------------------------------------------------------

\* DEPARTMENT_AUTHORITIES: per category, role key -> Authority. An address
\* template is the sequence of its literal pieces and its {state},
\* {district}, {area} tokens.
DEPARTMENT_AUTHORITIES ==
    [electricity |->
        [pio |-> [name |-> "Public Information Officer",
                   designation |-> "PIO, Electricity Department",
                   level |-> "state",
                   address_template |-> <<"{state}", " State Electricity Board, ", "{district}">>],
         ae |-> [name |-> "Assistant Engineer",
                   designation |-> "Assistant Engineer (Electrical)",
                   level |-> "local",
                   address_template |-> <<"Assistant Engineer Office, ", "{area}", ", ", "{district}">>],
         se |-> [name |-> "Superintending Engineer",
                   designation |-> "Superintending Engineer",
                   level |-> "district",
                   address_template |-> <<"SE Office, ", "{district}", " Circle">>],
         grievance |-> [name |-> "Consumer Grievance Redressal Forum",
                   designation |-> "Chairman, CGRF",
                   level |-> "state",
                   address_template |-> <<"CGRF, ", "{state}", " Electricity Regulatory Commission">>]],
     water |->
        [pio |-> [name |-> "Public Information Officer",
                   designation |-> "PIO, Water Supply Department",
                   level |-> "district",
                   address_template |-> <<"{state}", " Jal Board, ", "{district}">>],
         je |-> [name |-> "Junior Engineer",
                   designation |-> "Junior Engineer (Water Supply)",
                   level |-> "local",
                   address_template |-> <<"JE Office, Water Supply Division, ", "{area}">>],
         ee |-> [name |-> "Executive Engineer",
                   designation |-> "Executive Engineer (Water)",
                   level |-> "district",
                   address_template |-> <<"EE Office, ", "{district}", " Division">>]],
     roads |->
        [pio |-> [name |-> "Public Information Officer",
                   designation |-> "PIO, PWD",
                   level |-> "state",
                   address_template |-> <<"PWD Secretariat, ", "{state}">>],
         je |-> [name |-> "Junior Engineer",
                   designation |-> "Junior Engineer (Roads)",
                   level |-> "local",
                   address_template |-> <<"PWD Sub-Division, ", "{area}", ", ", "{district}">>],
         ee |-> [name |-> "Executive Engineer",
                   designation |-> "Executive Engineer (Roads)",
                   level |-> "district",
                   address_template |-> <<"PWD Division Office, ", "{district}">>],
         nhai |-> [name |-> "Project Director",
                   designation |-> "Project Director, NHAI",
                   level |-> "central",
                   address_template |-> <<"NHAI Project Office, ", "{state}">>]],
     education |->
        [pio |-> [name |-> "Public Information Officer",
                   designation |-> "PIO, Education Department",
                   level |-> "state",
                   address_template |-> <<"Directorate of Education, ", "{state}">>],
         deo |-> [name |-> "District Education Officer",
                   designation |-> "DEO",
                   level |-> "district",
                   address_template |-> <<"DEO Office, ", "{district}">>],
         principal |-> [name |-> "Principal",
                   designation |-> "Principal / Headmaster",
                   level |-> "local",
                   address_template |-> <<"Government School, ", "{area}", ", ", "{district}">>]],
     health |->
        [pio |-> [name |-> "Public Information Officer",
                   designation |-> "PIO, Health Department",
                   level |-> "state",
                   address_template |-> <<"Directorate of Health Services, ", "{state}">>],
         cmo |-> [name |-> "Chief Medical Officer",
                   designation |-> "CMO",
                   level |-> "district",
                   address_template |-> <<"CMO Office, ", "{district}">>],
         medical_superintendent |-> [name |-> "Medical Superintendent",
                   designation |-> "Medical Superintendent",
                   level |-> "district",
                   address_template |-> <<"Government Hospital, ", "{district}">>]],
     police |->
        [pio |-> [name |-> "Public Information Officer",
                   designation |-> "PIO, Police Department",
                   level |-> "state",
                   address_template |-> <<"Police Headquarters, ", "{state}">>],
         sho |-> [name |-> "Station House Officer",
                   designation |-> "SHO",
                   level |-> "local",
                   address_template |-> <<"Police Station, ", "{area}", ", ", "{district}">>],
         sp |-> [name |-> "Superintendent of Police",
                   designation |-> "SP",
                   level |-> "district",
                   address_template |-> <<"SP Office, ", "{district}">>],
         ig |-> [name |-> "Inspector General of Police",
                   designation |-> "IG",
                   level |-> "state",
                   address_template |-> <<"IG Office, ", "{state}">>]],
     land |->
        [pio |-> [name |-> "Public Information Officer",
                   designation |-> "PIO, Revenue Department",
                   level |-> "state",
                   address_template |-> <<"Revenue Secretariat, ", "{state}">>],
         tehsildar |-> [name |-> "Tehsildar",
                   designation |-> "Tehsildar / Naib Tehsildar",
                   level |-> "local",
                   address_template |-> <<"Tehsil Office, ", "{area}", ", ", "{district}">>],
         sdo |-> [name |-> "Sub-Divisional Officer",
                   designation |-> "SDO (Revenue)",
                   level |-> "district",
                   address_template |-> <<"SDO Office, ", "{district}">>],
         collector |-> [name |-> "District Collector",
                   designation |-> "Collector & District Magistrate",
                   level |-> "district",
                   address_template |-> <<"Collectorate, ", "{district}">>]],
     transport |->
        [pio |-> [name |-> "Public Information Officer",
                   designation |-> "PIO, Transport Department",
                   level |-> "state",
                   address_template |-> <<"Transport Commissioner Office, ", "{state}">>],
         rto |-> [name |-> "Regional Transport Officer",
                   designation |-> "RTO",
                   level |-> "district",
                   address_template |-> <<"RTO Office, ", "{district}">>],
         arto |-> [name |-> "Assistant Regional Transport Officer",
                   designation |-> "ARTO",
                   level |-> "district",
                   address_template |-> <<"RTO Office, ", "{district}">>]],
     ration |->
        [pio |-> [name |-> "Public Information Officer",
                   designation |-> "PIO, Food & Civil Supplies",
                   level |-> "state",
                   address_template |-> <<"Food & Civil Supplies Directorate, ", "{state}">>],
         fso |-> [name |-> "Food & Supply Officer",
                   designation |-> "FSO / DFSO",
                   level |-> "district",
                   address_template |-> <<"FSO Office, ", "{district}">>],
         inspector |-> [name |-> "Food Inspector",
                   designation |-> "Food Inspector",
                   level |-> "local",
                   address_template |-> <<"FSO Office, ", "{area}", ", ", "{district}">>]],
     pension |->
        [pio |-> [name |-> "Public Information Officer",
                   designation |-> "PIO, Pension Department",
                   level |-> "state",
                   address_template |-> <<"Pension Directorate, ", "{state}">>],
         treasury |-> [name |-> "Treasury Officer",
                   designation |-> "District Treasury Officer",
                   level |-> "district",
                   address_template |-> <<"District Treasury, ", "{district}">>]],
     municipal |->
        [pio |-> [name |-> "Public Information Officer",
                   designation |-> "PIO, Municipal Corporation",
                   level |-> "district",
                   address_template |-> <<"Municipal Corporation, ", "{district}">>],
         commissioner |-> [name |-> "Municipal Commissioner",
                   designation |-> "Commissioner",
                   level |-> "district",
                   address_template |-> <<"Municipal Corporation, ", "{district}">>],
         health_officer |-> [name |-> "Municipal Health Officer",
                   designation |-> "MHO",
                   level |-> "district",
                   address_template |-> <<"Municipal Corporation, ", "{district}">>]],
     general |->
        [pio |-> [name |-> "Public Information Officer",
                   designation |-> "PIO",
                   level |-> "state",
                   address_template |-> <<"Secretariat, ", "{state}">>],
         collector |-> [name |-> "District Collector",
                   designation |-> "Collector & District Magistrate",
                   level |-> "district",
                   address_template |-> <<"Collectorate, ", "{district}">>],
         grievance |-> [name |-> "Grievance Cell",
                   designation |-> "Officer In-Charge, Grievance Cell",
                   level |-> "state",
                   address_template |-> <<"CM Grievance Cell, ", "{state}">>]]]

STATE_INFO ==
    {"andhra_pradesh", "arunachal_pradesh", "assam", "bihar",
     "chhattisgarh", "goa", "gujarat", "haryana", "himachal_pradesh",
     "jharkhand", "karnataka", "kerala", "madhya_pradesh", "maharashtra",
     "manipur", "meghalaya", "mizoram", "nagaland", "odisha", "punjab",
     "rajasthan", "sikkim", "tamil_nadu", "telangana", "tripura",
     "uttar_pradesh", "uttarakhand", "west_bengal", "delhi"}

\* Confidences resolve_authority gives to its matches
PIO_CONFIDENCE == 9500
TIER_CONFIDENCE == 8500
GRIEVANCE_CONFIDENCE == 7000
COLLECTOR_CONFIDENCE == 6000

\* str.title() of a lower-case word
Capitalized ==
    [rajasthan |-> "Rajasthan", tamil |-> "Tamil", nadu |-> "Nadu",
     atlantis |-> "Atlantis", jaipur |-> "Jaipur", sanganer |-> "Sanganer"]

\* sep.join(words)
RECURSIVE Join(_, _)
Join(words, sep) ==
    IF words = <<>> THEN ""
    ELSE IF Len(words) = 1 THEN words[1]
    ELSE words[1] \o sep \o Join(Tail(words), sep)

\* State names a caller may pass: the string as written, its lower-case
\* words and the separator written between them
StateNames ==
    {[raw |-> "Rajasthan", words |-> <<"rajasthan">>, sep |-> " "],
     [raw |-> "rajasthan", words |-> <<"rajasthan">>, sep |-> " "],
     [raw |-> "Tamil Nadu", words |-> <<"tamil", "nadu">>, sep |-> " "],
     [raw |-> "tamil_nadu", words |-> <<"tamil", "nadu">>, sep |-> "_"],
     [raw |-> "tamil-nadu", words |-> <<"tamil", "nadu">>, sep |-> "-"],
     [raw |-> "Atlantis", words |-> <<"atlantis">>, sep |-> " "]}

\* district and area: "" stands for None or the empty string
Districts == {"", "jaipur"}
Areas == {"", "sanganer"}

\* _normalize_state: lower case, spaces and hyphens become underscores
normalize_state(state) == Join(state.words, "_")

\* state.replace("_", " ").title(): a hyphen stays, every word is capitalised
state_display(state) ==
    Join([i \in DOMAIN state.words |-> Capitalized[state.words[i]]],
         IF state.sep = "-" THEN "-" ELSE " ")

\* An address template returned as it is, no token replaced
format_address_unformatted(template, state, district, area) == template

\* _format_address: the tokens of the template replaced by the state, the
\* district or "[District]", the area or "[Area/Locality]"
format_address(template, state, district, area) ==
    [i \in DOMAIN template |->
        CASE template[i] = "{state}" -> state_display(state)
          [] template[i] = "{district}" ->
                IF district # "" THEN Capitalized[district] ELSE "[District]"
          [] template[i] = "{area}" ->
                IF area # "" THEN Capitalized[area] ELSE "[Area/Locality]"
          [] OTHER -> template[i]]

\* The role keys resolve_authority looks for, in order
local_keys == <<"je", "sho", "inspector", "tehsildar", "ae">>
district_keys == <<"ee", "sp", "cmo", "rto", "sdo", "fso", "deo">>
escalation_words ==
    {<<"no", "response">>, <<"ignored">>, <<"months">>, <<"escalate">>,
     <<"higher">>}

\* extracted_entities as the words of str(extracted_entities).lower();
\* <<>> stands for None or an empty dict
EntityInputs ==
    {<<>>, <<"location", "jaipur">>, <<"status", "no", "response">>,
     <<"status", "ignored">>, <<"duration", "3", "months">>}

\* word in text_hints
ContainsWords(text_hints, word) ==
    \E i \in 1..Len(text_hints) :
        /\ i + Len(word) - 1 <= Len(text_hints)
        /\ SubSeq(text_hints, i, i + Len(word) - 1) = word

\* is_escalation of resolve_authority
is_escalation(extracted_entities) ==
    /\ extracted_entities # <<>>
    /\ \E word \in escalation_words : ContainsWords(extracted_entities, word)

\* The first key of the list the department has, "" if none (the for
\* loops ending in break)
first_key(keys, dept_authorities) ==
    LET present == {i \in DOMAIN keys : keys[i] \in DOMAIN dept_authorities}
    IN  IF present = {} THEN ""
        ELSE keys[CHOOSE i \in present : \A j \in present : i <= j]

\* AuthorityMatch(authority=Authority(... address_template=formatted ...))
AuthorityMatch(auth, state, district, area, confidence, match_reason, is_primary) ==
    [authority |-> [name |-> auth.name,
                    designation |-> auth.designation,
                    level |-> auth.level,
                    address |-> format_address(auth.address_template, state,
                                               district, area)],
     confidence |-> confidence,
     match_reason |-> match_reason,
     is_primary |-> is_primary]

\* next((m for m in matches if m.is_primary), matches[0] if matches else None);
\* <<>> stands for None
primary_of(matches) ==
    LET flagged == {i \in DOMAIN matches : matches[i].is_primary}
    IN  IF flagged # {}
        THEN <<matches[CHOOSE i \in flagged : \A j \in flagged : i <= j]>>
        ELSE IF matches # <<>> THEN <<matches[1]>> ELSE <<>>

\* resolve_authority(category, state, district, area, is_rti, extracted_entities)
resolve_authority(category, state, district, area, is_rti, extracted_entities) ==
    LET dept_authorities ==
            IF category \in DOMAIN DEPARTMENT_AUTHORITIES
            THEN DEPARTMENT_AUTHORITIES[category]
            ELSE DEPARTMENT_AUTHORITIES["general"]
        rti_branch == is_rti /\ "pio" \in DOMAIN dept_authorities
        escalation == is_escalation(extracted_entities)
        key == first_key(IF escalation THEN district_keys ELSE local_keys,
                         dept_authorities)
        first ==
            IF rti_branch
            THEN <<AuthorityMatch(dept_authorities["pio"], state, district, area,
                       PIO_CONFIDENCE,
                       "PIO is the designated officer for RTI applications",
                       TRUE)>>
            ELSE IF key = "" THEN <<>>
            ELSE <<AuthorityMatch(dept_authorities[key], state, district, area,
                       TIER_CONFIDENCE,
                       IF escalation
                       THEN "District-level authority for escalated complaints"
                       ELSE "Local-level authority for new complaints",
                       TRUE)>>
        with_grievance ==
            IF "grievance" \in DOMAIN dept_authorities /\ Len(first) < 3
            THEN Append(first,
                     AuthorityMatch(dept_authorities["grievance"], state,
                         district, area, GRIEVANCE_CONFIDENCE,
                         "Grievance redressal forum as alternative", FALSE))
            ELSE first
        matches ==
            IF category # "general" /\ Len(with_grievance) < 3
            THEN Append(with_grievance,
                     AuthorityMatch(DEPARTMENT_AUTHORITIES["general"]["collector"],
                         state, district, area, COLLECTOR_CONFIDENCE,
                         "District Collector as general authority", FALSE))
            ELSE with_grievance
        requires_state == normalize_state(state) \notin STATE_INFO
    IN  [matches |-> matches,
         primary |-> primary_of(matches),
         category |-> category,
         suggestions |->
            (IF rti_branch THEN <<"address to PIO", "RTI fee">>
             ELSE IF escalation THEN <<"mention previous complaint">>
             ELSE <<>>)
            \o (IF requires_state THEN <<"verify state name">> ELSE <<>>),
         requires_state_selection |-> requires_state]

\* The categories resolve_authority is called with: those of the directory
\* and one it does not know
ResolverCategories == DOMAIN DEPARTMENT_AUTHORITIES \cup {"sanitation"}

\* resolve_authority(...) is called
Call_resolve_authority ==
    /\ pc = "idle"
    /\ \E category \in ResolverCategories, state \in StateNames,
          district \in Districts, area \in Areas, is_rti \in BOOLEAN,
          extracted_entities \in EntityInputs :
        /\ args' = <<[category |-> category, state |-> state,
                      district |-> district, area |-> area, is_rti |-> is_rti,
                      extracted_entities |-> extracted_entities]>>
        /\ outcome' = <<resolve_authority(category, state, district, area,
                                          is_rti, extracted_entities)>>
    /\ fn' = "resolve_authority"
    /\ pc' = "done"
    /\ UNCHANGED <<Thresholds, text, intent, rule_confidence,
                   adjusted_confidence, decision_path, invoked, document_type,
                   gated, ask, result, raised, verdict, legal, service_state>>

NextResolver ==
    \/ Call_resolve_authority
    \/ Return

SpecResolver == Init /\ [][NextResolver]_vars

\* ---------------------------------------------------------------------
\* Rate limiting (middleware.py)
\* ---------------------------------------------------------------------

\* RateLimitMiddleware.requests_per_window and window_seconds, scaled
requests_per_window == 2
window_seconds == 2

\* The clock is followed up to this time; at most this many dispatch calls
\* wait in call_next at once
MaxClock == 3
MaxInFlight == 2

\* The requests sent: path, first address of x-forwarded-for ("" if the
\* header is absent) and request.client.host ("" if request.client is None)
Requests ==
    {[path |-> p, forwarded |-> id.forwarded, host |-> id.host] :
        p \in {"/health", "/api/infer"},
        id \in {[forwarded |-> "10.0.0.1", host |-> ""],
                [forwarded |-> "", host |-> "10.0.0.1"],
                [forwarded |-> "", host |-> ""]}}

\* RateLimitMiddleware._get_client_id
get_client_id(request) ==
    IF request.forwarded # "" THEN request.forwarded
    ELSE IF request.host # "" THEN request.host
    ELSE "unknown"

\* A cleaning that forgets every entry
clean_old_entries_all(times, current_time) == <<>>

\* dispatch, "Clean old entries": the times later than window_start
clean_old_entries(times, current_time) ==
    LET window_start == current_time - window_seconds
    IN  SelectSeq(times, LAMBDA t : t > window_start)

\* time.time() advances
Tick ==
    /\ clock < MaxClock
    /\ clock' = clock + 1
    /\ UNCHANGED <<inference_state, embedding_cache, audit_log, threads,
                   rate_limit_enabled, request_counts, in_flight, admissions,
                   last_decision>>

\* RateLimitMiddleware.dispatch up to its first suspension. The lock is
\* free whenever a call reaches it, since no call suspends while holding
\* it, so reading the time, taking the lock, cleaning, testing and
\* recording happen without another call in between. The call then either
\* has answered 429 or waits in call_next.
Dispatch ==
    /\ \E request \in Requests :
           LET client_id == get_client_id(request)
               current_time == clock
               cleaned == clean_old_entries(request_counts[client_id], current_time)
           IN  IF ~rate_limit_enabled \/ request.path = "/health"
               THEN /\ BagCardinality(in_flight) < MaxInFlight
                    /\ in_flight' = in_flight (+) SetToBag(
                           {[limited |-> FALSE]})
                    /\ last_decision' = <<[client_id |-> client_id, path |-> request.path,
                                           current_time |-> current_time,
                                           status |-> "bypassed"]>>
                    /\ UNCHANGED <<request_counts, admissions>>
               ELSE IF Len(cleaned) >= requests_per_window
               THEN /\ request_counts' = [request_counts EXCEPT ![client_id] = cleaned]
                    /\ last_decision' = <<[client_id |-> client_id, path |-> request.path,
                                           current_time |-> current_time,
                                           status |-> "429"]>>
                    /\ UNCHANGED <<in_flight, admissions>>
               ELSE /\ BagCardinality(in_flight) < MaxInFlight
                    /\ request_counts' = [request_counts EXCEPT
                           ![client_id] = Append(cleaned, current_time)]
                    /\ in_flight' = in_flight (+) SetToBag(
                           {[limited |-> TRUE]})
                    /\ admissions' = [admissions EXCEPT
                           ![client_id] = Append(@, current_time)]
                    /\ last_decision' = <<[client_id |-> client_id, path |-> request.path,
                                           current_time |-> current_time,
                                           status |-> "admitted"]>>
    /\ UNCHANGED <<inference_state, embedding_cache, audit_log, threads,
                   rate_limit_enabled, clock>>

\* call_next(request) returns for one of the waiting calls; dispatch
\* returns the response, with the X-RateLimit headers if the call was
\* counted (the header values are not followed)
CallNextReturns ==
    /\ \E call \in BagToSet(in_flight) :
            in_flight' = in_flight (-) SetToBag({call})
    /\ UNCHANGED <<inference_state, embedding_cache, audit_log, threads,
                   rate_limit_enabled, request_counts, clock, admissions,
                   last_decision>>

\* The limiter of a process started with either setting
InitLimiter ==
    /\ Thresholds = DefaultThresholds
    /\ Idle
    /\ embedding_cache = <<>>
    /\ tracked = FALSE
    /\ first_run = <<>>
    /\ audit_log = <<>>
    /\ threads = [t \in Threads |-> ThreadIdle]
    /\ LimiterConstructed
    /\ rate_limit_enabled \in BOOLEAN

NextLimiter ==
    \/ Tick
    \/ Dispatch
    \/ CallNextReturns

SpecLimiter == InitLimiter /\ [][NextLimiter]_vars

\* What the steps of the threads leave alone
sequential_state ==
    <<Thresholds, pc, fn, text, args, intent, rule_confidence,
      adjusted_confidence, decision_path, invoked, document_type,
      gated, ask, result, raised, direct_results, tracked, first_run,
      limiter_state>>

\* The texts and the confidence that the threads use
ThreadTexts == {"text_a", "text_b", "text_c", "text_d", "text_e"}
ThreadConfidence == 6000

\* The cache and the audit log share no data: a behaviour of the threads
\* exercises one of them until it is empty again and no call on it is open.
CacheInUse ==
    \/ embedding_cache # <<>>
    \/ \E t \in Threads :
            threads[t].pc \in {"check", "read", "compute", "delete", "store"}
AuditLogInUse ==
    \/ audit_log # <<>>
    \/ \E t \in Threads : threads[t].pc \in {"size", "pop"}

\* A thread calls get_embedding(text): cache_key = _get_cache_key(text)
Thread_get_embedding(t) ==
    /\ threads[t].pc = "idle"
    /\ ~AuditLogInUse
    /\ \E a_text \in ThreadTexts :
            threads' = [threads EXCEPT ![t] =
                            [ThreadIdle EXCEPT !.pc = "check", !.key = a_text]]
    /\ UNCHANGED <<sequential_state, embedding_cache, audit_log>>

\* get_embedding: `if use_cache and cache_key in _embedding_cache`
Thread_check_cache(t) ==
    /\ threads[t].pc = "check"
    /\ threads' = [threads EXCEPT ![t].pc =
            IF get_cache_key(threads[t].key) \in CachedKeys(embedding_cache)
            THEN "read" ELSE "compute"]
    /\ UNCHANGED <<sequential_state, embedding_cache, audit_log>>

\* get_embedding: `return _embedding_cache[cache_key], True`; a KeyError
\* if the key has gone since the test
Thread_read_cache(t) ==
    /\ threads[t].pc = "read"
    /\ threads' = [threads EXCEPT ![t] =
            IF get_cache_key(threads[t].key) \in CachedKeys(embedding_cache)
            THEN ThreadIdle
            ELSE [ThreadIdle EXCEPT !.pc = "raised", !.error = "KeyError"]]
    /\ UNCHANGED <<sequential_state, embedding_cache, audit_log>>

\* get_embedding computes the embedding and calls _manage_cache, which
\* tests the size and lists the keys to delete
Thread_manage_cache(t) ==
    /\ threads[t].pc = "compute"
    /\ threads' = [threads EXCEPT ![t] =
            IF Len(embedding_cache) > cache_max_size
            THEN [@ EXCEPT !.pc = "delete",
                           !.keys = [i \in 1..(Len(embedding_cache) \div 2) |->
                                        embedding_cache[i].key]]
            ELSE [@ EXCEPT !.pc = "store"]]
    /\ UNCHANGED <<sequential_state, embedding_cache, audit_log>>

\* _manage_cache: `del _embedding_cache[key]` for the next listed key; a
\* KeyError if the key has gone since the keys were listed
Thread_delete_key(t) ==
    /\ threads[t].pc = "delete"
    /\ IF threads[t].keys = <<>>
       THEN /\ threads' = [threads EXCEPT ![t].pc = "store"]
            /\ UNCHANGED embedding_cache
       ELSE IF Head(threads[t].keys) \in CachedKeys(embedding_cache)
       THEN /\ embedding_cache' = DeleteKey(embedding_cache, Head(threads[t].keys))
            /\ threads' = [threads EXCEPT ![t].keys = Tail(@)]
       ELSE /\ threads' = [threads EXCEPT ![t] =
                    [ThreadIdle EXCEPT !.pc = "raised", !.error = "KeyError"]]
            /\ UNCHANGED embedding_cache
    /\ UNCHANGED <<sequential_state, audit_log>>

\* get_embedding: `_embedding_cache[cache_key] = embedding`, and return
Thread_store_embedding(t) ==
    /\ threads[t].pc = "store"
    /\ embedding_cache' =
            IF get_cache_key(threads[t].key) \in CachedKeys(embedding_cache)
            THEN embedding_cache
            ELSE Append(embedding_cache, [key |-> get_cache_key(threads[t].key),
                                         embedding |-> threads[t].key])
    /\ threads' = [threads EXCEPT ![t] = ThreadIdle]
    /\ UNCHANGED <<sequential_state, audit_log>>

\* A thread calls clear_cache(): the global is bound to a new dict
Thread_clear_cache(t) ==
    /\ threads[t].pc = "idle"
    /\ embedding_cache # <<>>
    /\ embedding_cache' = <<>>
    /\ UNCHANGED <<sequential_state, audit_log, threads>>

\* A thread calls log_gating_decision: `_audit_log.append(entry)`
Thread_log_gating_decision(t) ==
    /\ threads[t].pc = "idle"
    /\ ~CacheInUse
    /\ IF audit_log = <<>> THEN TRUE
       ELSE audit_log[Len(audit_log)].n < MaxAuditCalls
    /\ audit_log' = log_gating_decision_unbounded(audit_log, ThreadConfidence)
    /\ threads' = [threads EXCEPT ![t].pc = "size"]
    /\ UNCHANGED <<sequential_state, embedding_cache>>

\* log_gating_decision: `if len(_audit_log) > _max_audit_entries`
Thread_test_size(t) ==
    /\ threads[t].pc = "size"
    /\ threads' = [threads EXCEPT ![t] =
            IF Len(audit_log) > max_audit_entries
            THEN [@ EXCEPT !.pc = "pop"] ELSE ThreadIdle]
    /\ UNCHANGED <<sequential_state, embedding_cache, audit_log>>

\* log_gating_decision: `_audit_log.pop(0)`, and return; an IndexError if
\* the log has been cleared since the test
Thread_pop_oldest(t) ==
    /\ threads[t].pc = "pop"
    /\ IF audit_log = <<>>
       THEN /\ threads' = [threads EXCEPT ![t] =
                    [ThreadIdle EXCEPT !.pc = "raised", !.error = "IndexError"]]
            /\ UNCHANGED audit_log
       ELSE /\ audit_log' = Tail(audit_log)
            /\ threads' = [threads EXCEPT ![t] = ThreadIdle]
    /\ UNCHANGED <<sequential_state, embedding_cache>>

\* A thread calls clear_audit_log(): the global is bound to a new list
Thread_clear_audit_log(t) ==
    /\ threads[t].pc = "idle"
    /\ audit_log # <<>>
    /\ audit_log' = <<>>
    /\ UNCHANGED <<sequential_state, embedding_cache, threads>>

\* The exception has left the thread's call
Thread_raised(t) ==
    /\ threads[t].pc = "raised"
    /\ threads' = [threads EXCEPT ![t] = ThreadIdle]
    /\ UNCHANGED <<sequential_state, embedding_cache, audit_log>>

\* Threads calling the embedding cache and the audit log with no lock
NextConcurrent ==
    \/ \E t \in Threads : Thread_get_embedding(t)
    \/ \E t \in Threads : Thread_check_cache(t)
    \/ \E t \in Threads : Thread_read_cache(t)
    \/ \E t \in Threads : Thread_manage_cache(t)
    \/ \E t \in Threads : Thread_delete_key(t)
    \/ \E t \in Threads : Thread_store_embedding(t)
    \/ \E t \in Threads : Thread_clear_cache(t)
    \/ \E t \in Threads : Thread_log_gating_decision(t)
    \/ \E t \in Threads : Thread_test_size(t)
    \/ \E t \in Threads : Thread_pop_oldest(t)
    \/ \E t \in Threads : Thread_clear_audit_log(t)
    \/ \E t \in Threads : Thread_raised(t)

SpecConcurrent == Init /\ [][NextConcurrent]_vars

\* run_inference(text) is called on one of the repeated texts
Call_run_inference_again ==
    /\ pc = "idle"
    /\ \E t \in RepeatedTexts : text' = <<t>>
    /\ fn' = "run_inference"
    /\ pc' = "step1"
    /\ UNCHANGED <<Thresholds, args, intent, rule_confidence,
                   adjusted_confidence, decision_path, invoked, document_type,
                   gated, ask, result, raised, direct_results, service_state>>

\* Repeated runs of the pipeline in one process, with the embedding cache
\* and the thresholds as the runs and updates in between leave them
NextRepeated ==
    \/ UpdateThresholds
    \/ Call_clear_cache
    \/ Call_run_inference_again
    \/ Step1_RuleEngine
    \/ Step2_SpacyNLP
    \/ Step2_SpacyRaises
    \/ Step3_ConfidenceGate
    \/ Step4_Skip
    \/ Step4_DistilBERT
    \/ Step4_DistilBERTRaises
    \/ Step5_DocumentType
    \/ Step6_FinalGate
    \/ Return

SpecRepeated == InitCache /\ [][NextRepeated]_vars

(***************************************************************************)
(* Properties                                                              *)
(***************************************************************************)
InRun == fn = "run_inference"
Returned == InRun /\ pc = "done" /\ result # <<>>
RuleVerdictKnown == InRun /\ "classify_intent" \in invoked /\ raised = "none"

\* C1: in run_inference, when the rule matcher's confidence is at or above
\* the NLP-escalation threshold, neither the entity extractor nor the
\* semantic ranker is invoked and the decision path has no spaCy step and no
\* semantic-ranking step.
C1_NoEscalationWhenRuleConfident ==
    (RuleVerdictKnown /\ rule_confidence >= Thresholds.USE_NLP_BELOW) =>
        /\ "extract_entities" \notin invoked
        /\ "compute_similarity" \notin invoked
        /\ \A i \in DOMAIN decision_path :
                decision_path[i] \notin {"spaCy NLP", "DistilBERT (semantic boost)"}

\* C2: every run_inference call completes with one intent of the six
\* categories of the rule matcher; no verdict of the rule matcher makes the
\* run end without a result.
C2_EveryRuleVerdictYieldsResult ==
    InRun =>
        /\ raised # "ValueError"
        /\ (result # <<>> => result[1].intent \in RuleIntentTypes)

\* C3: an exception of entity extraction or semantic ranking is caught
\* inside run_inference, recorded in the decision path as skipped (error),
\* and the run still returns; it never leaves the call.
C3_StageFailuresAreContained ==
    InRun =>
        /\ raised # "RuntimeError"
        /\ (pc = "raised" => "extract_entities" \notin invoked)

\* C4: the GatedResult's requires_confirmation is true if and only if the
\* level is LOW or VERY_LOW or the caller has flagged the content as legally
\* sensitive.
C4_ConfirmationIffLowOrSensitive ==
    (fn = "gate_result" /\ gated # <<>>) =>
        gated[1].requires_confirmation =
            (gated[1].level \in {"low", "very_low"} \/ args[1].is_legal_content)

\* C5: in every result of the pipeline requires_confirmation is true
\* whenever the level is LOW or VERY_LOW, and false only if the level is HIGH.
C5_UnconfirmedOnlyAtHigh ==
    Returned =>
        /\ (result[1].confidence_level \in {"low", "very_low"}
                => result[1].requires_confirmation)
        /\ (~result[1].requires_confirmation
                => result[1].confidence_level = "high")

\* C6: within one run_inference call the confidence never decreases from
\* one stage to the next: not by the legal-trigger boost (step 3) and not by
\* the semantic stage (step 4), under any threshold configuration.
C6_ConfidenceNeverDecreases ==
    [][(InRun /\ pc \in {"step3", "step4"}) =>
            /\ adjusted_confidence' >= rule_confidence
            /\ (pc = "step4" => adjusted_confidence' >= adjusted_confidence)]_vars

\* C7: the semantic ranker is invoked only when the confidence held when
\* step 4 is reached is below the semantic threshold USE_DISTILBERT_BELOW.
C7_SemanticOnlyBelowSemanticThreshold ==
    [][(InRun /\ pc = "step4" /\ "compute_similarity" \in invoked') =>
            adjusted_confidence < Thresholds.USE_DISTILBERT_BELOW]_vars

StageSequence ==
    <<"RuleEngine", "LegalTriggers+IssueMapping", "EntityExtraction",
      "ConfidenceCheck", "SemanticRanking", "DocumentTypeDetermination",
      "FinalGate">>

\* The stage a decision-path entry belongs to
StageOf(entry) ==
    IF entry = "Rule Engine" THEN "RuleEngine"
    ELSE IF entry = "Legal Triggers" THEN "LegalTriggers+IssueMapping"
    ELSE IF entry = "spaCy NLP" THEN "EntityExtraction"
    ELSE IF entry \in {"Confidence Gate", "RTI sections confirmed (+10%)",
                       "Grievance markers confirmed (+10%)"} THEN "ConfidenceCheck"
    ELSE IF entry = "Document type" THEN "DocumentTypeDetermination"
    ELSE "SemanticRanking"

\* The stages of a decision path, entries of one stage counted once
RECURSIVE StagesOf(_)
StagesOf(path) ==
    IF path = <<>> THEN <<>>
    ELSE LET rest == StagesOf(Tail(path))
             st == StageOf(Head(path))
         IN IF rest # <<>> /\ Head(rest) = st THEN rest ELSE <<st>> \o rest

\* C8: the decision path of every returned run holds an entry for each
\* stage of the fixed sequence, FinalGate included, in that order.
C8_DecisionPathCoversEveryStage ==
    Returned => StagesOf(result[1].decision_path) = StageSequence

\* The level the documented thresholds give a score
DocumentedLevel(score) ==
    IF score >= 9000 THEN "high"
    ELSE IF score >= 7000 THEN "medium"
    ELSE IF score >= 5000 THEN "low"
    ELSE "very_low"

C10_ConfidenceInRange ==
    /\ rule_confidence \in 0..9500
    /\ adjusted_confidence \in 0..10000
    /\ text # <<>> => \A c \in Categories : Scores(text[1])[c] \in 0..9500
    /\ result # <<>> => result[1].confidence \in 0..10000

\* C10 witness: a returned run on a text whose matched weights add up to
\* more than 0.95 before the cap
C10_Witness ==
    /\ Returned
    /\ rule_confidence = 9500
    /\ \E c \in Categories :
            calculate_weighted_score_uncapped(find_keyword_matches(text[1], c)) > 9500

\* C11: for an empty or whitespace-only text the rule matcher returns
\* UNKNOWN with confidence 0, and run_inference invokes neither the entity
\* extractor nor the semantic ranker.
C11_BlankTextFailsFast ==
    (text # <<>> /\ text[1].blank) =>
        /\ verdict # <<>> =>
                verdict[1].intent = "unknown" /\ verdict[1].confidence = 0
        /\ RuleVerdictKnown => intent = "unknown" /\ rule_confidence = 0
        /\ "extract_entities" \notin invoked
        /\ "compute_similarity" \notin invoked

\* The verdict of the rule matcher on the current text: of a direct call, or
\* as run_inference has just received it in step 1
MatcherVerdict ==
    IF verdict # <<>> THEN <<verdict[1]>>
    ELSE IF RuleVerdictKnown /\ pc = "step2"
    THEN <<[intent |-> intent, confidence |-> rule_confidence]>>
    ELSE <<>>

\* The highest score among the categories other than the best one
SecondBestScore(t) ==
    LET s == Scores(t)
        others == Categories \ {BestIntent(t)}
    IN CHOOSE x \in {s[c] : c \in others} : \A c \in others : s[c] <= x

\* C12: whenever the best and the second-best category score within 0.1 of
\* each other, the confidence the rule matcher reports is at most 0.6.
C12_CloseScoresAreCapped ==
    (text # <<>> /\ MatcherVerdict # <<>>) =>
        LET t == text[1]
        IN (Scores(t)[BestIntent(t)] - SecondBestScore(t) <= AMBIGUITY_MARGIN)
                => MatcherVerdict[1].confidence <= AMBIGUITY_CAP

\* C13: whenever the best score is below the floor 0.3 the rule matcher
\* returns UNKNOWN with confidence exactly 0, and no verdict other than
\* UNKNOWN carries a confidence below 0.3.
C13_FloorGivesUnknownZero ==
    (text # <<>> /\ MatcherVerdict # <<>>) =>
        LET raw == Scores(text[1])[BestIntent(text[1])]
            v == MatcherVerdict[1]
        IN /\ raw < UNKNOWN_FLOOR => v.intent = "unknown" /\ v.confidence = 0
           /\ v.intent # "unknown" => v.confidence >= UNKNOWN_FLOOR

\* C13 witness: a direct call on a text that is not blank and matches no
\* keyword came back UNKNOWN with confidence 0
C13_Witness ==
    /\ fn = "classify_intent_detailed"
    /\ verdict # <<>>
    /\ ~text[1].blank
    /\ Scores(text[1])[BestIntent(text[1])] < UNKNOWN_FLOOR
    /\ verdict[1].intent = "unknown"
    /\ verdict[1].confidence = 0

Last(seq) == seq[Len(seq)]

\* The semantic ranker has just run: step 4 invoked compute_similarity
SemanticStepTaken ==
    InRun /\ pc = "step4" /\ "compute_similarity" \in invoked'

BoostEntries(path) ==
    Cardinality({i \in DOMAIN path :
                    path[i] \in {"RTI sections confirmed (+10%)",
                                 "Grievance markers confirmed (+10%)"}})

\* C15: after the legal-trigger step the confidence is
\* min(0.95, rule confidence + 0.10) if the intent is RTI and an RTI section
\* trigger matched, or the intent is COMPLAINT and a grievance marker
\* matched, and the rule confidence otherwise; the boost is applied at most
\* once per run.
C15_LegalBoostOnce ==
    (InRun /\ pc = "step4") =>
        LET supported ==
                \/ intent = "rti" /\ text[1].rti_sections >= 1
                \/ intent = "complaint" /\ text[1].grievance_markers >= 1
        IN /\ adjusted_confidence =
                (IF supported THEN Min(9500, rule_confidence + 1000)
                 ELSE rule_confidence)
           /\ BoostEntries(decision_path) = (IF supported THEN 1 ELSE 0)

\* C15 witness: a complaint whose text holds both an RTI section trigger
\* and a grievance marker went from 0.72 to 0.82
C15_Witness ==
    /\ InRun
    /\ pc = "step4"
    /\ intent = "complaint"
    /\ text[1].rti_sections >= 1
    /\ text[1].grievance_markers >= 1
    /\ rule_confidence = 7200
    /\ adjusted_confidence = 8200

\* The document types of the RTI vocabulary and of the complaint vocabulary
RtiSubtypes == {"information_request", "records_request", "inspection_request"}
ComplaintSubtypes == {"grievance", "escalation", "follow_up"}

SemanticFailed(path) ==
    \E i \in DOMAIN path : path[i] = "DistilBERT skipped (error)"
RepeatedRun ==
    Returned /\ first_run # <<>> /\ first_run[1].text = text[1]

ScenarioC ==
    /\ InRun
    /\ text[1].matches = NoMatches
    /\ text[1].rti_sections = 0
    /\ text[1].grievance_markers = 0
    /\ ~text[1].blank

\* C18: a run on "I need some help." that returns has had a rule verdict of
\* UNKNOWN with confidence 0, has invoked entity extraction and semantic
\* ranking, and for every similarity outcome ends with level LOW or
\* VERY_LOW, requires_confirmation true and a non-empty list of
\* alternatives.
C18_HelpTextNeedsConfirmation ==
    (ScenarioC /\ Returned) =>
        /\ rule_confidence = 0
        /\ {"extract_entities", "compute_similarity"} \subseteq invoked
        /\ result[1].confidence_level \in {"low", "very_low"}
        /\ result[1].requires_confirmation
        /\ gated[1].alternatives # <<>>

\* The text "power cut for 3 days, transformer exploded, life at risk, no
\* response from electricity board" as run_inference reads it (one keyword,
\* "no response", of weight 0.2 in the follow-up table; a trigger of
\* Section 7; no grievance marker) and as analyze_legal_context reads it
ScenarioB_Run ==
    /\ InRun
    /\ text[1].matches = BagOf(<<<<"follow_up", 2000>>>>)
    /\ text[1].rti_sections > 0
    /\ text[1].grievance_markers = 0
ScenarioB_Legal ==
    /\ fn = "analyze_legal_context"
    /\ args[1] = [sections |-> {"Section 7"}, markers |-> {},
                  life_liberty_word |-> TRUE, second_appeal |-> FALSE]

\* C19: a run of the pipeline on the text of scenario B returns the intent
\* COMPLAINT, and the legal analysis of the text has overall severity
\* CRITICAL, a marker that needs escalation and the 48-hour timeline.
C19_ScenarioB ==
    /\ (ScenarioB_Run /\ pc \in {"done", "raised"}) =>
            /\ raised = "none"
            /\ result[1].intent = "complaint"
    /\ ScenarioB_Legal =>
            /\ legal[1].overall_severity = "critical"
            /\ \E i \in DOMAIN legal[1].grievance_markers :
                    legal[1].grievance_markers[i].escalation_needed
            /\ legal[1].timeline_applicable
                    = "48 hours (Section 7(1) proviso - life/liberty)"

\* C20: the embedding cache never holds more than its capacity
C20_CacheWithinCapacity == Len(embedding_cache) <= cache_max_size

\* The original wording of C21: the log holds at most its capacity, in
\* insertion order, and a call that takes it over capacity drops the oldest
\* half of its entries.
C21_AuditLogDropsOldestHalf ==
    [][ (audit_log' # audit_log /\ audit_log' # <<>>) =>
            LET appended == Append(audit_log, Last(audit_log'))
            IN /\ Len(audit_log') <= max_audit_entries
               /\ audit_log' =
                    IF Len(appended) > max_audit_entries
                    THEN SubSeq(appended, Len(appended) \div 2 + 1, Len(appended))
                    ELSE appended ]_vars

\* C21 (amended): after any sequence of log_gating_decision calls the audit
\* log holds at most its capacity, in insertion order, and a call that takes
\* it over capacity drops the oldest entry and no other.
C21_AuditLogDropsOldestEntry ==
    [][ (audit_log' # audit_log /\ audit_log' # <<>>) =>
            LET appended == Append(audit_log, Last(audit_log'))
            IN /\ Len(audit_log') <= max_audit_entries
               /\ \A i \in 1..(Len(audit_log') - 1) :
                        audit_log'[i].n < audit_log'[i + 1].n
               /\ audit_log' =
                    IF Len(appended) > max_audit_entries
                    THEN Tail(appended)
                    ELSE appended ]_vars

\* C21 witness: the log is full and its oldest entries have been dropped
C21_Witness ==
    /\ Len(audit_log) = max_audit_entries
    /\ audit_log[1].n > 1

\* C28: every gating decision is in the audit log: when gate_result has
\* returned, directly or as the final gate of a completed run_inference,
\* the newest entry that get_audit_log returns is that decision.
C28_EveryDecisionLogged ==
    ((fn = "gate_result" /\ pc = "done") \/ Returned) =>
        LET entries == get_audit_log(audit_log, 0)
        IN /\ entries # <<>>
           /\ Last(entries).confidence = gated[1].confidence
           /\ Last(entries).confidence_level = gated[1].level

\* C22: under any interleaving of concurrent callers, no call on the
\* embedding cache or the audit log fails because of another caller's
\* eviction or clearing, and when no call is open neither structure is
\* above its capacity.
C22_NoInterferenceBetweenCallers ==
    /\ \A t \in Threads : threads[t].pc # "raised"
    /\ (\A t \in Threads : threads[t].pc = "idle") =>
            /\ Len(embedding_cache) <= cache_max_size
            /\ Len(audit_log) <= max_audit_entries

\* The LLM answered and a placeholder of the draft is not in its answer
PlaceholderLost ==
    /\ args[1].llm.kind = "response"
    /\ \E ph \in find_placeholders(args[1].draft_text) :
            ~ContainsToken(args[1].llm.enhanced_text, ph)

Assembled == pc = "done" /\ fn = "assemble_draft"

\* The call found a template and produced an RTI draft
AssembledRtiDraft ==
    /\ Assembled
    /\ args[1].document_type \in RtiDocumentTypes
    /\ args[1].template_loaded

Resolved == pc = "done" /\ fn = "resolve_authority"

\* The directory entry of the category the call was made with
ResolvedDirectory ==
    IF args[1].category \in DOMAIN DEPARTMENT_AUTHORITIES
    THEN DEPARTMENT_AUTHORITIES[args[1].category]
    ELSE DEPARTMENT_AUTHORITIES["general"]

\* The parts of a formatted address
AddressParts(match) ==
    {match.authority.address[i] : i \in DOMAIN match.authority.address}

\* C25: in RTI mode the primary authority is, for every category and every
\* state, the category's Public Information Officer with confidence 0.95;
\* for electricity in Rajasthan its address contains "Rajasthan".
C25_RtiPrimaryIsPio ==
    (Resolved /\ args[1].is_rti) =>
        LET r == outcome[1]
            pio == ResolvedDirectory["pio"]
        IN  /\ Len(r.primary) = 1
            /\ r.primary[1].confidence = PIO_CONFIDENCE
            /\ r.primary[1].authority.name = pio.name
            /\ r.primary[1].authority.designation = pio.designation
            /\ r.primary[1].authority.level = pio.level
            /\ r.primary[1].authority.address =
                   format_address(pio.address_template, args[1].state,
                                  args[1].district, args[1].area)
            /\ (args[1].category = "electricity" /\ args[1].state.raw = "Rajasthan")
                   => "Rajasthan" \in AddressParts(r.primary[1])

\* An RTI resolution for electricity in Rajasthan without a district
C25_Witness ==
    /\ Resolved
    /\ args[1].is_rti
    /\ args[1].category = "electricity"
    /\ args[1].state.raw = "Rajasthan"
    /\ args[1].district = ""
    /\ outcome[1].primary[1].authority.address =
           <<"Rajasthan", " State Electricity Board, ", "[District]">>

\* A complaint resolution for a category of the directory
ResolvedComplaint ==
    /\ Resolved
    /\ ~args[1].is_rti
    /\ args[1].category \in DOMAIN DEPARTMENT_AUTHORITIES

\* C26: in complaint mode the primary authority is at the local tier
\* without an escalation hint and at the district tier with one, for every
\* category of the directory.
C26_ComplaintTier ==
    ResolvedComplaint =>
        /\ Len(outcome[1].primary) = 1
        /\ outcome[1].primary[1].authority.level =
               IF is_escalation(args[1].extracted_entities)
               THEN "district" ELSE "local"

\* C27: in complaint mode at least two authorities are returned, among
\* them a grievance-forum entry and the top-level administrative fallback,
\* for every category, with and without escalation hints.
C27_ComplaintFallbacks ==
    ResolvedComplaint =>
        LET matches == outcome[1].matches
        IN  /\ Len(matches) >= 2
            /\ \E i \in DOMAIN matches :
                 matches[i].match_reason = "Grievance redressal forum as alternative"
            /\ \E i \in DOMAIN matches :
                 matches[i].match_reason = "District Collector as general authority"

\* C30: for every input the list of matches is not empty, the primary is
\* an element of it, exactly one match is flagged is_primary and that match
\* is the primary.
C30_OnePrimary ==
    Resolved =>
        LET r == outcome[1]
            flagged == {i \in DOMAIN r.matches : r.matches[i].is_primary}
        IN  /\ r.matches # <<>>
            /\ Len(r.primary) = 1
            /\ \E i \in DOMAIN r.matches : r.matches[i] = r.primary[1]
            /\ Cardinality(flagged) = 1
            /\ \A i \in flagged : r.matches[i] = r.primary[1]

\* The number of requests of a client admitted at times in (a - window_seconds, a]
AdmittedWithin(client_id, a) ==
    Cardinality({i \in DOMAIN admissions[client_id] :
                    /\ admissions[client_id][i] > a - window_seconds
                    /\ admissions[client_id][i] <= a})

\* The number of requests of a client admitted at times in [a, a + window_seconds]
AdmittedFromTo(client_id, a) ==
    Cardinality({i \in DOMAIN admissions[client_id] :
                    /\ admissions[client_id][i] >= a
                    /\ admissions[client_id][i] <= a + window_seconds})

\* What the last dispatch decided agrees with the history: only /health
\* requests pass uncounted, and a request is answered 429 exactly when the
\* client already had requests_per_window admitted requests at times later
\* than the request's time minus window_seconds
RejectedExactlyWhenFull ==
    last_decision # <<>> =>
        LET d == last_decision[1]
            already == AdmittedWithin(d.client_id, d.current_time)
                       - (IF d.status = "admitted" THEN 1 ELSE 0)
        IN  /\ d.status = "bypassed" <=> d.path = "/health"
            /\ d.status = "429" <=>
                   (d.path # "/health" /\ already >= requests_per_window)
            /\ d.status = "429" => already = requests_per_window

\* C29 (as stated): with rate limiting enabled, for each client and
\* whatever the order in which dispatch calls start and finish, the
\* requests to paths other than /health admitted at times inside any
\* interval of window_seconds, its two ends included, are at most
\* requests_per_window; and a request is answered 429 exactly when the
\* client already has requests_per_window admitted requests inside the
\* current window.
C29_AnyIntervalOfWindowSeconds ==
    rate_limit_enabled =>
        /\ \A client_id \in ClientIds, a \in 0..MaxClock :
             AdmittedFromTo(client_id, a) <= requests_per_window
        /\ RejectedExactlyWhenFull

\* C29 (amended): as above for every interval of window_seconds that is
\* open at its early end (the times later than a - window_seconds and not
\* later than a, for any a): a request admitted exactly window_seconds
\* after another one is not counted with it.
C29_RateLimit ==
    rate_limit_enabled =>
        /\ \A client_id \in ClientIds, a \in 0..MaxClock :
             AdmittedWithin(client_id, a) <= requests_per_window
        /\ RejectedExactlyWhenFull

\* A client that was admitted in an earlier window, filled the current one
\* while an earlier call was still waiting in call_next, and is answered 429
C29_Witness ==
    /\ rate_limit_enabled
    /\ last_decision # <<>>
    /\ last_decision[1].status = "429"
    /\ last_decision[1].client_id = "10.0.0.1"
    /\ Len(admissions["10.0.0.1"]) > requests_per_window
    /\ in_flight # EmptyBag

====
